---------------------------- MODULE Spec2Model ----------------------------
(***************************************************************************)
(* A state-machine model of the AgriGuide backend (agriguide_ai):          *)
(*   - the chat session manager            (views.py)                      *)
(*   - the daily farming tip cache         (ai_tip_views.py)               *)
(*   - the community feed                  (community_views.py)            *)
(*   - the tutorial catalog                (lms_views.py, models.py)       *)
(* Every request handler is one action (or, where interleavings matter,    *)
(* one action per database / cache / external-model access).  The module   *)
(* holds several specifications, one per component, that share the         *)
(* variables; a specification leaves the other components' variables       *)
(* unchanged.                                                               *)
(***************************************************************************)
EXTENDS Integers, Sequences, FiniteSets, TLC

VARIABLES
    \* ---- chat session manager (views.py)
    sessions,      \* rows of chat_sessions
    messages,      \* rows of chat_messages
    next_uuid,     \* the next value uuid.uuid4() yields (fresh, never reused)
    next_msg_id,   \* the auto-increment key of chat_messages
    clock,         \* timezone.now(), as seen by auto_now / auto_now_add
    turns,         \* chat_with_ai requests in flight, per worker
    chatResp,      \* the last chat request and its response
    \* ---- daily tip cache (ai_tip_views.py)
    cache,         \* django.core.cache: key (a date) -> entry
    now,           \* wall-clock time, in ticks
    tipReqs,       \* get_daily_farming_tip requests in flight, per worker
    tipResp,       \* the last completed tip request and its response
    \* ---- community feed (community_views.py)
    posts,         \* rows of community_posts
    likes,         \* rows of post_likes
    comments,      \* rows of post_comments
    next_post_id,
    next_comment_id,
    toggled,       \* history: the (user, post) pairs toggled an odd number of times
    toggleReqs,    \* toggle_post_like requests in flight, per worker
    feedResp,      \* the last feed request and its response
    \* ---- tutorial catalog (lms_views.py)
    user_type,     \* User.user_type of every user
    farmer_profiles,   \* rows of farmer_profiles: [user]
    worker_profiles,   \* rows of extension_worker_profiles: [user, is_approved]
    tutorials,     \* rows of tutorials
    storage,       \* the video files written to object storage
    next_tutorial_id,
    incReqs,       \* increment_views requests in flight, per worker
    incDone,       \* history: completed increment_views requests per tutorial
    lmsResp,       \* the last tutorial request and its response
    \* ---- accounts and tokens (auth_views.py)
    password,      \* the password of every user, None while not registered
    tokens,        \* rows of authtoken_token: [key, user]
    next_key,      \* the next value Token.generate_key() yields (fresh, never reused)
    revoked,       \* history: the keys of the tokens deleted so far
    authResp       \* the last account request and its response

chatVars == <<sessions, messages, next_uuid, next_msg_id, clock, turns, chatResp>>
tipVars  == <<cache, now, tipReqs, tipResp>>
feedVars == <<posts, likes, comments, next_post_id, next_comment_id, toggled,
              toggleReqs, feedResp>>
profileVars == <<farmer_profiles, worker_profiles>>
lmsVars  == <<user_type, profileVars, tutorials, storage, next_tutorial_id, incReqs,
              incDone, lmsResp>>
authVars == <<password, tokens, next_key, revoked, authResp>>
vars     == <<chatVars, tipVars, feedVars, lmsVars, authVars>>
notChat  == <<tipVars, feedVars, lmsVars, authVars>>
notTip   == <<chatVars, feedVars, lmsVars, authVars>>
notFeed  == <<chatVars, tipVars, lmsVars, authVars>>
notLms   == <<chatVars, tipVars, feedVars, authVars>>
notAuth  == <<chatVars, tipVars, feedVars, lmsVars>>

(***************************************************************************)
(* Bounds of the model and the small input sets.                           *)
(***************************************************************************)
MaxSessions == 1      \* sessions ever created
MaxClock    == 7      \* writes to the chat tables
MaxConcSessions == 1  \* the same two, with chat turns interleaved
MaxConcClock    == 5
MaxListSessions == 2  \* the same two, for the listing of sessions
MaxListClock    == 5
Users       == {"u1", "u2"}
Workers     == {"w1", "w2"}          \* concurrent request handlers

\* Python's None in a string-valued field.
None == "None"

\* A session_id a client can send when at most max_sessions sessions are
\* ever created: 0 is "no session_id" (falsy), and max_sessions + 1 is an id
\* no session ever has.
ClientSessionIds(max_sessions) == 0 .. (max_sessions + 1)

\* request.data.get('message', ''), before .strip().
RawMessages == {"  ", " hello "}

\* response.text of the external model.
Replies == {"reply"}

\* views.py line 101: str.strip() on the message.
Strip(raw) ==
    CASE raw = "  "      -> ""
      [] raw = " hello " -> "hello"
      [] OTHER           -> raw

\* HTTP status codes (rest_framework.status).
HTTP_200_OK == 200
HTTP_201_CREATED == 201
HTTP_204_NO_CONTENT == 204
HTTP_400_BAD_REQUEST == 400
HTTP_401_UNAUTHORIZED == 401
HTTP_403_FORBIDDEN == 403
HTTP_404_NOT_FOUND == 404
HTTP_500_INTERNAL_SERVER_ERROR == 500


(***************************************************************************)
(*                       CHAT SESSION MANAGER                              *)
(* A ChatSession row is [session_id, user, is_active, updated_at]; a      *)
(* ChatMessage row is [id, session, role, message, created_at].           *)
(***************************************************************************)

\* ChatSession.objects.get(session_id=..., user=request.user): the matching
\* rows (empty: ChatSession.DoesNotExist).
GetSessionNoOwnerCheck(ss, sid, u) == {s \in ss : s.session_id = sid}
\* A lookup that finds active sessions only.
GetActiveSession(ss, sid, u) ==
    {s \in ss : s.session_id = sid /\ s.user = u /\ s.is_active}
GetSession(ss, sid, u) == {s \in ss : s.session_id = sid /\ s.user = u}

\* ChatMessage.objects.filter(session=chat_session)
SessionMessages(ms, sid) == {m \in ms : m.session = sid}

\* .order_by('created_at') (also ChatMessage.Meta.ordering)
RECURSIVE OrderByCreatedAtDesc(_)
OrderByCreatedAtDesc(S) ==
    IF S = {} THEN <<>>
    ELSE LET m == CHOOSE x \in S : \A y \in S : x.created_at >= y.created_at
         IN  <<m>> \o OrderByCreatedAtDesc(S \ {m})
RECURSIVE OrderByCreatedAt(_)
OrderByCreatedAt(S) ==
    IF S = {} THEN <<>>
    ELSE LET m == CHOOSE x \in S : \A y \in S : x.created_at <= y.created_at
         IN  <<m>> \o OrderByCreatedAt(S \ {m})

\* The oldest update first.
RECURSIVE OrderByUpdatedAtAsc(_)
OrderByUpdatedAtAsc(S) ==
    IF S = {} THEN <<>>
    ELSE LET s == CHOOSE x \in S : \A y \in S : x.updated_at <= y.updated_at
         IN  <<s>> \o OrderByUpdatedAtAsc(S \ {s})

\* .order_by('-updated_at')
RECURSIVE OrderByUpdatedAtDesc(_)
OrderByUpdatedAtDesc(S) ==
    IF S = {} THEN <<>>
    ELSE LET s == CHOOSE x \in S : \A y \in S : x.updated_at >= y.updated_at
         IN  <<s>> \o OrderByUpdatedAtDesc(S \ {s})

\* The body of a response of the chat endpoints; every handler fills the
\* fields it returns and leaves the others at these defaults.
ChatRes(status, error) ==
    [status |-> status, error |-> error, response |-> "", session_id |-> 0,
     history |-> <<>>, sessions |-> <<>>]

\* SYSTEM_INSTRUCTION (lines 27-86), by its name
SYSTEM_INSTRUCTION == "SYSTEM_INSTRUCTION"

\* A message as the external model is given it.
Part(role, text) == [role |-> role, text |-> text]

\* lines 129-148: contents, the stored messages of the session in
\* created_at order followed by the new message.
BuildContents(ms, sid, message) ==
    LET rows == OrderByCreatedAt(SessionMessages(ms, sid))
    IN  [i \in 1 .. Len(rows) |-> Part(rows[i].role, rows[i].message)]
           \o <<Part("user", message)>>

\* lines 151-157, what the external model is given: model.start_chat(
\* history=[]) starts an empty chat, to which SYSTEM_INSTRUCTION and then
\* the new message are sent; contents is not used.
ModelInput(contents) ==
    <<Part("user", SYSTEM_INSTRUCTION), contents[Len(contents)]>>

\* The request as received.  "called" and "sent" are history: whether the
\* handler reached the external model and what came of it, and what the
\* model was given.
ChatReq(op, u, sid, message) ==
    [op |-> op, user |-> u, session_id |-> sid, message |-> message,
     called |-> "no", sent |-> <<>>]
ChatReqCalled(op, u, sid, message, outcome, contents) ==
    [ChatReq(op, u, sid, message) EXCEPT
        !.called = IF outcome.ok THEN "replied" ELSE "failed",
        !.sent = ModelInput(contents)]

\* get_chat_history, lines 229-235: the rows in query order.
HistoryOf(ms, sid) ==
    LET rows == OrderByCreatedAt(SessionMessages(ms, sid))
    IN  [i \in 1 .. Len(rows) |->
            [role |-> rows[i].role, message |-> rows[i].message,
             created_at |-> rows[i].created_at]]

\* A listing that does not filter on is_active.
SessionsDataIncludingInactive(ss, ms, u) ==
    LET rows == OrderByUpdatedAtDesc({s \in ss : s.user = u})
    IN  [i \in 1 .. Len(rows) |->
            LET msgs == OrderByCreatedAt(SessionMessages(ms, rows[i].session_id))
            IN  [session_id    |-> rows[i].session_id,
                 updated_at    |-> rows[i].updated_at,
                 message_count |-> Len(msgs),
                 last_message  |-> IF msgs = <<>> THEN None
                                   ELSE msgs[Len(msgs)].message]]

\* get_chat_sessions, lines 196-210.
SessionsData(ss, ms, u) ==
    LET rows == OrderByUpdatedAtDesc({s \in ss : s.user = u /\ s.is_active})
    IN  [i \in 1 .. Len(rows) |->
            LET msgs == OrderByCreatedAt(SessionMessages(ms, rows[i].session_id))
            IN  [session_id    |-> rows[i].session_id,
                 updated_at    |-> rows[i].updated_at,
                 message_count |-> Len(msgs),
                 last_message  |-> IF msgs = <<>> THEN None
                                   ELSE msgs[Len(msgs)].message]]

\* The outcome of the calls to the external model (lines 151-163): one of
\* them raises, or a reply arrives.
ModelOutcomes ==
    {[ok |-> FALSE, at |-> "model error", text |-> ""]}
    \cup {[ok |-> TRUE, at |-> "", text |-> r] : r \in Replies}

NotFoundRes == ChatRes(HTTP_404_NOT_FOUND, "Session not found or access denied")

\* ChatMessage.objects.create(session=..., role=..., message=...)
NewMessage(id, sid, role, text, t) ==
    [id |-> id, session |-> sid, role |-> role, message |-> text, created_at |-> t]

\* An exception handler that undoes what the request wrote.
RolledBack(before, written) == before

\* except Exception (lines 186-189): the response is built and nothing is
\* undone; the view runs in autocommit, so the rows written before the
\* exception stay.
AfterException(before, written) == written

\* chat_with_ai, handled without interruption (lines 100-189).
chat_with_ai(u, sid, raw, outcome) ==
    LET message == Strip(raw)
        req     == ChatReq("chat_with_ai", u, sid, raw)
        found   == GetSession(sessions, sid, u)
    IN
    /\ UNCHANGED <<turns, notChat>>
    /\ IF message = ""
       THEN /\ chatResp' = [req |-> req,
                            res |-> ChatRes(HTTP_400_BAD_REQUEST, "Message is required")]
            /\ UNCHANGED <<sessions, messages, next_uuid, next_msg_id, clock>>
       ELSE IF sid # 0 /\ found = {}
       THEN /\ chatResp' = [req |-> req, res |-> NotFoundRes]
            /\ UNCHANGED <<sessions, messages, next_uuid, next_msg_id, clock>>
       ELSE
         \* the session of the turn: the one found, or a new one (lines 121-127)
         LET creating == (sid = 0)
             t0       == IF creating THEN clock + 1 ELSE clock
             chat_session ==
                 IF creating
                 THEN [session_id |-> next_uuid, user |-> u,
                       is_active |-> TRUE, updated_at |-> t0]
                 ELSE CHOOSE s \in found : TRUE
             ss1 == IF creating THEN sessions \cup {chat_session} ELSE sessions
             id  == chat_session.session_id
         IN
         /\ next_uuid' = IF creating THEN next_uuid + 1 ELSE next_uuid
         /\ IF ~outcome.ok
            THEN \* except Exception (lines 186-189)
                 /\ chatResp' = [req |-> ChatReqCalled("chat_with_ai", u, sid, raw, outcome,
                                                     BuildContents(messages, id, message)),
                                 res |-> ChatRes(HTTP_500_INTERNAL_SERVER_ERROR, outcome.at)]
                 /\ sessions' = AfterException(sessions, ss1)
                 /\ clock' = t0
                 /\ UNCHANGED <<messages, next_msg_id>>
            ELSE \* lines 165-184
                 /\ messages' = messages \cup
                        {NewMessage(next_msg_id, id, "user", message, t0 + 1),
                         NewMessage(next_msg_id + 1, id, "model", outcome.text, t0 + 2)}
                 /\ next_msg_id' = next_msg_id + 2
                 /\ sessions' = (ss1 \ {chat_session})
                                  \cup {[chat_session EXCEPT !.updated_at = t0 + 3]}
                 /\ clock' = t0 + 3
                 /\ chatResp' = [req |-> ChatReqCalled("chat_with_ai", u, sid, raw, outcome,
                                                     BuildContents(messages, id, message)),
                                 res |-> [ChatRes(HTTP_200_OK, "") EXCEPT
                                            !.response = outcome.text,
                                            !.session_id = id]]

\* get_chat_sessions (lines 194-212)
get_chat_sessions(u) ==
    /\ chatResp' = [req |-> ChatReq("get_chat_sessions", u, 0, ""),
                    res |-> [ChatRes(HTTP_200_OK, "") EXCEPT
                               !.sessions = SessionsData(sessions, messages, u)]]
    /\ UNCHANGED <<sessions, messages, next_uuid, next_msg_id, clock, turns, notChat>>

\* get_chat_history (lines 217-245)
get_chat_history(u, sid) ==
    /\ chatResp' =
         [req |-> ChatReq("get_chat_history", u, sid, ""),
          res |-> IF GetSession(sessions, sid, u) = {}
                  THEN NotFoundRes
                  ELSE [ChatRes(HTTP_200_OK, "") EXCEPT
                          !.session_id = sid,
                          !.history = HistoryOf(messages, sid)]]
    /\ UNCHANGED <<sessions, messages, next_uuid, next_msg_id, clock, turns, notChat>>

\* clear_chat_session (lines 250-280)
clear_chat_session(u, sid) ==
    LET req   == ChatReq("clear_chat_session", u, sid, "")
        found == GetSession(sessions, sid, u)
    IN
    /\ UNCHANGED <<messages, next_uuid, next_msg_id, turns, notChat>>
    /\ IF sid = 0
       THEN /\ chatResp' = [req |-> req,
                            res |-> ChatRes(HTTP_400_BAD_REQUEST, "session_id is required")]
            /\ UNCHANGED <<sessions, clock>>
       ELSE IF found = {}
       THEN /\ chatResp' = [req |-> req, res |-> NotFoundRes]
            /\ UNCHANGED <<sessions, clock>>
       ELSE LET chat_session == CHOOSE s \in found : TRUE
            IN  /\ sessions' = (sessions \ {chat_session}) \cup
                      {[chat_session EXCEPT !.is_active = FALSE,
                                            !.updated_at = clock + 1]}
                /\ clock' = clock + 1
                /\ chatResp' = [req |-> req, res |-> ChatRes(HTTP_200_OK, "")]

\* A delete that leaves the messages of the session behind.
DeleteWithoutCascade(ms, sid) == ms

\* ChatMessage.session is on_delete=CASCADE (models.py lines 172-176): the
\* messages that remain when session sid is deleted.
DeleteCascade(ms, sid) == ms \ SessionMessages(ms, sid)

\* delete_chat_session (lines 285-302)
delete_chat_session(u, sid) ==
    LET req   == ChatReq("delete_chat_session", u, sid, "")
        found == GetSession(sessions, sid, u)
    IN
    /\ UNCHANGED <<next_uuid, next_msg_id, clock, turns, notChat>>
    /\ IF found = {}
       THEN /\ chatResp' = [req |-> req, res |-> NotFoundRes]
            /\ UNCHANGED <<sessions, messages>>
       ELSE /\ sessions' = sessions \ found
            /\ messages' = DeleteCascade(messages, sid)
            /\ chatResp' = [req |-> req, res |-> ChatRes(HTTP_200_OK, "")]

NoResp == [req |-> ChatReq("none", "u1", 0, ""), res |-> ChatRes(0, "")]
IdleTurn == [pc |-> "idle", user |-> "u1", raw |-> "", reply |-> "",
             session |-> [session_id |-> 0, user |-> "u1",
                          is_active |-> FALSE, updated_at |-> 0]]

ChatInit ==
    /\ sessions = {}
    /\ messages = {}
    /\ next_uuid = 1
    /\ next_msg_id = 1
    /\ clock = 0
    /\ turns = [w \in Workers |-> IdleTurn]
    /\ chatResp = NoResp

(***************************************************************************)
(* chat_with_ai as the database sees it: the view runs in autocommit mode  *)
(* (no transaction.atomic anywhere in the sources), so each query commits  *)
(* on its own and other requests run between them.                         *)
(***************************************************************************)
Respond(w, req, res) ==
    /\ chatResp' = [req |-> req, res |-> res]
    /\ turns' = [turns EXCEPT ![w] = IdleTurn]

\* lines 101-132: validation, then the session is fetched or created.
ChatBegin(w, u, sid, raw) ==
    LET req   == ChatReq("chat_with_ai", u, sid, raw)
        found == GetSession(sessions, sid, u)
    IN
    /\ turns[w].pc = "idle"
    /\ UNCHANGED <<messages, next_msg_id, notChat>>
    /\ IF Strip(raw) = ""
       THEN /\ Respond(w, req, ChatRes(HTTP_400_BAD_REQUEST, "Message is required"))
            /\ UNCHANGED <<sessions, next_uuid, clock>>
       ELSE IF sid # 0 /\ found = {}
       THEN /\ Respond(w, req, NotFoundRes)
            /\ UNCHANGED <<sessions, next_uuid, clock>>
       ELSE IF sid # 0
       THEN /\ turns' = [turns EXCEPT ![w] =
                           [pc |-> "call_model", user |-> u, raw |-> raw, reply |-> "",
                            session |-> CHOOSE s \in found : TRUE]]
            /\ UNCHANGED <<sessions, next_uuid, clock, chatResp>>
       ELSE LET chat_session == [session_id |-> next_uuid, user |-> u,
                                 is_active |-> TRUE, updated_at |-> clock + 1]
            IN  /\ sessions' = sessions \cup {chat_session}
                /\ next_uuid' = next_uuid + 1
                /\ clock' = clock + 1
                /\ turns' = [turns EXCEPT ![w] =
                               [pc |-> "call_model", user |-> u, raw |-> raw,
                                reply |-> "", session |-> chat_session]]
                /\ UNCHANGED chatResp

\* The request of a turn in flight, as sent: session_id is 0 when the turn
\* created its session.
TurnReq(w, outcome) ==
    ChatReqCalled("chat_with_ai", turns[w].user, turns[w].session.session_id,
                  turns[w].raw, outcome,
                  BuildContents(messages, turns[w].session.session_id, Strip(turns[w].raw)))

\* lines 151-163: the two calls to the external model.
ChatCallModel(w, outcome) ==
    /\ turns[w].pc = "call_model"
    /\ UNCHANGED <<sessions, messages, next_uuid, next_msg_id, clock, notChat>>
    /\ IF outcome.ok
       THEN /\ turns' = [turns EXCEPT ![w].pc = "save_user", ![w].reply = outcome.text]
            /\ UNCHANGED chatResp
       ELSE Respond(w, TurnReq(w, outcome),
                    ChatRes(HTTP_500_INTERNAL_SERVER_ERROR, outcome.at))

\* The session row of the turn is still there (the foreign key of a new
\* ChatMessage resolves).
SessionRowExists(w) == \E s \in sessions : s.session_id = turns[w].session.session_id

RepliedOutcome(w) == [ok |-> TRUE, at |-> "", text |-> turns[w].reply]

\* lines 166-170 and 172-176: one INSERT each; with the session row gone the
\* INSERT raises IntegrityError, which line 186 turns into a 500.
ChatSaveMessage(w, pc, role, text, next_pc) ==
    /\ turns[w].pc = pc
    /\ UNCHANGED <<sessions, next_uuid, notChat>>
    /\ IF SessionRowExists(w)
       THEN /\ clock + 1 <= MaxConcClock
            /\ messages' = messages \cup
                  {NewMessage(next_msg_id, turns[w].session.session_id, role, text,
                              clock + 1)}
            /\ next_msg_id' = next_msg_id + 1
            /\ clock' = clock + 1
            /\ turns' = [turns EXCEPT ![w].pc = next_pc]
            /\ UNCHANGED chatResp
       ELSE /\ Respond(w, TurnReq(w, RepliedOutcome(w)),
                       ChatRes(HTTP_500_INTERNAL_SERVER_ERROR, "IntegrityError"))
            /\ UNCHANGED <<messages, next_msg_id, clock>>

ChatSaveUser(w) ==
    ChatSaveMessage(w, "save_user", "user", Strip(turns[w].raw), "save_model")

ChatSaveModel(w) ==
    ChatSaveMessage(w, "save_model", "model", turns[w].reply, "save_session")

\* line 179: chat_session.save() writes every field of the instance loaded
\* at the start of the turn (auto_now sets updated_at); Model.save() issues
\* an UPDATE and, when no row matches, an INSERT.
ChatSaveSession(w) ==
    LET loaded == turns[w].session
    IN
    /\ turns[w].pc = "save_session"
    /\ clock + 1 <= MaxConcClock
    /\ sessions' = {s \in sessions : s.session_id # loaded.session_id}
                     \cup {[loaded EXCEPT !.updated_at = clock + 1]}
    /\ clock' = clock + 1
    /\ Respond(w, TurnReq(w, RepliedOutcome(w)),
               [ChatRes(HTTP_200_OK, "") EXCEPT !.response = turns[w].reply,
                                               !.session_id = loaded.session_id])
    /\ UNCHANGED <<messages, next_uuid, next_msg_id, notChat>>

\* The step stays within the bounds of a specification: at most
\* max_sessions sessions are ever created, and the clock of the writes does
\* not pass max_clock.
Bounded(max_sessions, max_clock) ==
    /\ next_uuid' <= max_sessions + 1
    /\ clock' <= max_clock

\* clear_chat_session while turns are in flight.
ClearDuringTurns(u, sid) == clear_chat_session(u, sid)

\* Interleaved requests come from one user: ownership plays no part in how
\* the queries of a turn interleave.
ConcUsers == {"u1"}
ConcIds == 0 .. (MaxConcSessions + 1)

ChatConcNext ==
    \/ \E w \in Workers, u \in ConcUsers, sid \in ConcIds, raw \in RawMessages :
          ChatBegin(w, u, sid, raw) /\ Bounded(MaxConcSessions, MaxConcClock)
    \/ \E w \in Workers, outcome \in ModelOutcomes : ChatCallModel(w, outcome)
    \/ \E w \in Workers : ChatSaveUser(w)
    \/ \E w \in Workers : ChatSaveModel(w)
    \/ \E w \in Workers : ChatSaveSession(w)
    \/ \E u \in ConcUsers : get_chat_sessions(u)
    \/ \E u \in ConcUsers, sid \in ConcIds : get_chat_history(u, sid)
    \/ \E u \in ConcUsers, sid \in ConcIds :
          ClearDuringTurns(u, sid) /\ Bounded(MaxConcSessions, MaxConcClock)
    \/ \E u \in ConcUsers, sid \in ConcIds : delete_chat_session(u, sid)

\* Requests handled one at a time.
ChatSteps(max_sessions, max_clock) ==
    \/ \E u \in Users, sid \in ClientSessionIds(max_sessions), raw \in RawMessages,
          outcome \in ModelOutcomes :
          chat_with_ai(u, sid, raw, outcome) /\ Bounded(max_sessions, max_clock)
    \/ \E u \in Users : get_chat_sessions(u)
    \/ \E u \in Users, sid \in ClientSessionIds(max_sessions) : get_chat_history(u, sid)
    \/ \E u \in Users, sid \in ClientSessionIds(max_sessions) :
          clear_chat_session(u, sid) /\ Bounded(max_sessions, max_clock)
    \/ \E u \in Users, sid \in ClientSessionIds(max_sessions) : delete_chat_session(u, sid)

\* Few sessions and many writes: whole conversations.
ChatNext == ChatSteps(MaxSessions, MaxClock)

\* More sessions and fewer writes: the listing of several sessions.
ChatListNext == ChatSteps(MaxListSessions, MaxListClock)

(***************************************************************************)
(*                          DAILY TIP CACHE                                *)
(* Time is counted in ticks, TicksPerDay to a calendar day.  A cache entry *)
(* is [value, expires]; a key that was never set holds None.               *)
(***************************************************************************)
TicksPerDay == 2
MaxTime     == 4      \* the last tick of the model: days 0, 1 and the start of day 2

\* A retention of 24 hours.
OneDayTimeout == TicksPerDay

\* cache.set(..., timeout=60 * 60 * 48): 48 hours.
CacheTimeout == 2 * TicksPerDay

\* datetime.now().date()
DateOf(t) == t \div TicksPerDay

\* The dates that can occur in a cache key f'farming_tip_{date}'.
CacheKeys == -1 .. DateOf(MaxTime)

\* DEFAULT_FALLBACK_TIPS (by their opening words)
DEFAULT_FALLBACK_TIPS ==
    {"Water your plants early in the morning", "Rotate your crops each season",
     "Apply mulch around your plants", "Monitor your crops regularly",
     "Test your soil pH annually"}

\* response.text of the external model, before .strip()
RawTips == {" tip A ", "tip B", "  "}

\* line 105: response.text.strip()
StripTip(raw) ==
    CASE raw = "  "      -> ""
      [] raw = " tip A " -> "tip A"
      [] OTHER           -> raw

\* A cache whose entries never expire.
CacheGetIgnoringExpiry(c, key, t) == c[key].value

\* cache.get(key) at time t: the value, None once the entry has expired.
CacheGet(c, key, t) == IF c[key].expires > t THEN c[key].value ELSE None

\* A test for None only ("if cached_tip is not None:").
TruthyOrEmpty(v) == v # None

\* Python truthiness of a cached value ("if cached_tip:").
Truthy(v) == v # None /\ v # ""

TipRes(status, tip, cached, fallback, date) ==
    [status |-> status, tip |-> tip, cached |-> cached, fallback |-> fallback,
     date |-> date]

\* The last response given, with the day on which its request was made
\* (history); status 0 before the first response.
NoTipResp == [res |-> TipRes(0, "", FALSE, FALSE, 0), today |-> 0]

IdleTip == [pc |-> "idle", today |-> 0, tip |-> None]

TipInit ==
    /\ cache = [k \in CacheKeys |-> [value |-> None, expires |-> 0]]
    /\ now = 0
    /\ tipReqs = [w \in Workers |-> IdleTip]
    /\ tipResp = NoTipResp

\* The request of worker w ends with response res.
TipDone(w, res) ==
    /\ tipResp' = [res |-> res, today |-> tipReqs[w].today]
    /\ tipReqs' = [tipReqs EXCEPT ![w] = IdleTip]

\* lines 58-77: today's key is read; a hit is returned at once.
TipStart(w, read_raises) ==
    LET today      == DateOf(now)
        cached_tip == CacheGet(cache, today, now)
    IN
    /\ tipReqs[w].pc = "idle"
    /\ UNCHANGED <<cache, now, notTip>>
    /\ IF read_raises
       THEN /\ tipReqs' = [tipReqs EXCEPT ![w] =
                              [pc |-> "except", today |-> today, tip |-> None]]
            /\ UNCHANGED tipResp
       ELSE IF Truthy(cached_tip)
       THEN /\ tipResp' = [res |-> TipRes(HTTP_200_OK, cached_tip, TRUE, FALSE, today),
                           today |-> today]
            /\ UNCHANGED tipReqs
       ELSE /\ tipReqs' = [tipReqs EXCEPT ![w] =
                              [pc |-> "generate", today |-> today, tip |-> None]]
            /\ UNCHANGED tipResp

\* lines 92-111: the external model is called and its tip is stored under
\* the key computed at the start of the request.  The call raises, or
\* cache.set raises (tip is assigned by then), or the tip is stored.
TipGenerate(w, outcome) ==
    /\ tipReqs[w].pc = "generate"
    /\ UNCHANGED <<now, tipResp, notTip>>
    /\ IF outcome.model_raises
       THEN /\ tipReqs' = [tipReqs EXCEPT ![w].pc = "except"]
            /\ UNCHANGED cache
       ELSE IF outcome.set_raises
       THEN /\ tipReqs' = [tipReqs EXCEPT ![w].pc = "except",
                                          ![w].tip = StripTip(outcome.text)]
            /\ UNCHANGED cache
       ELSE LET tip == StripTip(outcome.text)
            IN  /\ cache' = [cache EXCEPT ![tipReqs[w].today] =
                                [value |-> tip, expires |-> now + CacheTimeout]]
                /\ tipReqs' = [tipReqs EXCEPT ![w].pc = "respond", ![w].tip = tip]

GenerateOutcomes ==
    {[model_raises |-> TRUE, set_raises |-> FALSE, text |-> ""]}
    \cup {[model_raises |-> FALSE, set_raises |-> sr, text |-> t] :
             sr \in BOOLEAN, t \in RawTips}

\* lines 120-124
TipRespond(w) ==
    /\ tipReqs[w].pc = "respond"
    /\ TipDone(w, TipRes(HTTP_200_OK, tipReqs[w].tip, FALSE, FALSE, tipReqs[w].today))
    /\ UNCHANGED <<cache, now, notTip>>

\* line 140: (datetime.now() - timedelta(days=1)).date()
Yesterday(t) == DateOf(t) - 1

\* lines 126-174, the except branch: yesterday's entry, else one of the
\* default tips.  The read of line 141 is not inside any try: when it raises
\* the exception leaves the view and the framework answers 500.
TipExcept(w, read_raises, fallback_tip) ==
    LET yesterday     == Yesterday(now)
        yesterday_tip == CacheGet(cache, yesterday, now)
    IN
    /\ tipReqs[w].pc = "except"
    /\ UNCHANGED <<cache, now, notTip>>
    /\ IF read_raises
       THEN TipDone(w, TipRes(HTTP_500_INTERNAL_SERVER_ERROR, "", FALSE, FALSE, 0))
       ELSE IF Truthy(yesterday_tip)
       THEN TipDone(w, TipRes(HTTP_200_OK, yesterday_tip, TRUE, TRUE, yesterday))
       ELSE TipDone(w, TipRes(HTTP_200_OK, fallback_tip, FALSE, TRUE, DateOf(now)))

\* Time passes.
Tick ==
    /\ now < MaxTime
    /\ now' = now + 1
    /\ UNCHANGED <<cache, tipReqs, tipResp, notTip>>

\* The outcomes of random.choice(DEFAULT_FALLBACK_TIPS) that are followed.
RandomChoices ==
    {"Water your plants early in the morning", "Test your soil pH annually"}

TipNext ==
    \/ \E w \in Workers, read_raises \in BOOLEAN : TipStart(w, read_raises)
    \/ \E w \in Workers, outcome \in GenerateOutcomes : TipGenerate(w, outcome)
    \/ \E w \in Workers : TipRespond(w)
    \/ \E w \in Workers, read_raises \in BOOLEAN, f \in RandomChoices :
          TipExcept(w, read_raises, f)
    \/ Tick

(***************************************************************************)
(*                           COMMUNITY FEED                                *)
(* Requests are handled one at a time; every handler is one action.        *)
(***************************************************************************)
MaxPosts    == 1      \* posts ever created
MaxComments == 1      \* comments ever created

\* request.data['content'] of a new post, of an update and of a comment; the
\* empty string fails validation (TextField without blank=True).
Contents        == {"", "a"}
UpdateContents  == {"", "b"}
CommentContents == {"", "c"}

\* A pk a client can send: MaxPosts + 1 is never the id of a post.
ClientPostIds    == 1 .. (MaxPosts + 1)
ClientCommentIds == 1 .. (MaxComments + 1)

FeedRes(op, u, pk, comment_id, status, liked, likes_count) ==
    [op |-> op, user |-> u, pk |-> pk, comment_id |-> comment_id,
     status |-> status, liked |-> liked, likes_count |-> likes_count,
     data |-> <<>>]

\* CommunityPost.objects.get(pk=pk): the set of matching rows (empty or one).
GetPost(ps, pk) == {p \in ps : p.id = pk}

\* The likes of a post by whichever user.
LikesOfAnyUser(ls, u, pk) == {l \in ls : l.post = pk}

\* PostLike.objects.filter(user=request.user, post=post)
LikesOf(ls, u, pk) == {l \in ls : l.user = u /\ l.post = pk}

\* The row that PostLike.objects.create(user=..., post=...) inserts.  Its id
\* column is kept as the rank of the row among the rows of the same user and
\* post, so that two rows of one pair are two rows.
PostLikeRow(ls, u, pk) ==
    [user |-> u, post |-> pk, copy |-> Cardinality(LikesOf(ls, u, pk)) + 1]

\* An INSERT that no constraint refuses.
NoConstraint(ls, u, pk) == TRUE

\* PostLike.Meta.unique_together = ['user', 'post']: the INSERT of a like of
\* u for pk is admitted when no row of that pair exists.
unique_together(ls, u, pk) == LikesOf(ls, u, pk) = {}

\* post.likes.count()
likes_count(ls, pk) == Cardinality({l \in ls : l.post = pk})

\* post.comments.count()
comments_count(cs, pk) == Cardinality({c \in cs : c.post = pk})

\* A lookup by comment id alone.
GetCommentOfAnyPost(cs, comment_id, pk) == {c \in cs : c.id = comment_id}

\* PostComment.objects.get(pk=comment_id, post_id=pk)
GetComment(cs, comment_id, pk) == {c \in cs : c.id = comment_id /\ c.post = pk}

\* No toggle_post_like request of the worker is in flight.
IdleToggle == [pc |-> "idle", user |-> "", pk |-> 0, like_exists |-> FALSE]

FeedInit ==
    /\ posts = {}
    /\ likes = {}
    /\ comments = {}
    /\ next_post_id = 1
    /\ next_comment_id = 1
    /\ toggled = {}
    /\ toggleReqs = [w \in Workers |-> IdleToggle]
    /\ feedResp = FeedRes("none", "", 0, 0, 0, FALSE, 0)

\* CommunityPostListCreateView, POST: 400 on invalid data, else the post is
\* created with the caller as its author.
create_post(u, content) ==
    /\ next_post_id <= MaxPosts
    /\ UNCHANGED <<likes, comments, next_comment_id, toggled, toggleReqs, notFeed>>
    /\ IF content = ""
       THEN /\ feedResp' = FeedRes("create_post", u, 0, 0, HTTP_400_BAD_REQUEST, FALSE, 0)
            /\ UNCHANGED <<posts, next_post_id>>
       ELSE /\ posts' = posts \cup
                   {[id |-> next_post_id, author |-> u, content |-> content]}
            /\ next_post_id' = next_post_id + 1
            /\ feedResp' = FeedRes("create_post", u, next_post_id, 0,
                                   HTTP_201_CREATED, FALSE, 0)

\* CommunityPostDetailView, PUT/PATCH: get_object (404), is_valid (400),
\* perform_update.  perform_update raises the builtin PermissionError for a
\* caller who is not the author; the view does not catch it and the
\* framework's exception handler does not translate it, so the request ends
\* with 500.
update_post(u, pk, content) ==
    LET found == GetPost(posts, pk)
        post  == CHOOSE p \in found : TRUE
    IN
    /\ UNCHANGED <<likes, comments, next_post_id, next_comment_id, toggled, toggleReqs, notFeed>>
    /\ IF found = {}
       THEN /\ feedResp' = FeedRes("update_post", u, pk, 0, HTTP_404_NOT_FOUND, FALSE, 0)
            /\ UNCHANGED posts
       ELSE IF content = ""
       THEN /\ feedResp' = FeedRes("update_post", u, pk, 0, HTTP_400_BAD_REQUEST, FALSE, 0)
            /\ UNCHANGED posts
       ELSE IF post.author # u
       THEN /\ feedResp' = FeedRes("update_post", u, pk, 0,
                                   HTTP_500_INTERNAL_SERVER_ERROR, FALSE, 0)
            /\ UNCHANGED posts
       ELSE /\ posts' = (posts \ {post}) \cup {[post EXCEPT !.content = content]}
            /\ feedResp' = FeedRes("update_post", u, pk, 0, HTTP_200_OK, FALSE, 0)

\* CommunityPostDetailView, DELETE: get_object (404), perform_destroy.  The
\* delete cascades to the post's likes and comments (and the toggle history
\* of the post ends with it).
destroy_post(u, pk) ==
    LET found == GetPost(posts, pk)
        post  == CHOOSE p \in found : TRUE
    IN
    /\ UNCHANGED <<next_post_id, next_comment_id, toggleReqs, notFeed>>
    /\ IF found = {}
       THEN /\ feedResp' = FeedRes("destroy_post", u, pk, 0, HTTP_404_NOT_FOUND, FALSE, 0)
            /\ UNCHANGED <<posts, likes, comments, toggled>>
       ELSE IF post.author # u
       THEN /\ feedResp' = FeedRes("destroy_post", u, pk, 0,
                                   HTTP_500_INTERNAL_SERVER_ERROR, FALSE, 0)
            /\ UNCHANGED <<posts, likes, comments, toggled>>
       ELSE /\ posts' = posts \ {post}
            /\ toggled' = {t \in toggled : t[2] # pk}
            /\ likes' = {l \in likes : l.post # pk}
            /\ comments' = {c \in comments : c.post # pk}
            /\ feedResp' = FeedRes("destroy_post", u, pk, 0, HTTP_204_NO_CONTENT, FALSE, 0)

\* A toggle that reports the number of likes it found before its own change.
toggle_post_like_counting_first(u, pk) ==
    LET like_exists == LikesOf(likes, u, pk) # {}
        flipped     == IF like_exists
                       THEN likes \ LikesOf(likes, u, pk)
                       ELSE likes \cup {PostLikeRow(likes, u, pk)}
    IN
    /\ UNCHANGED <<posts, comments, next_post_id, next_comment_id, toggleReqs, notFeed>>
    /\ IF GetPost(posts, pk) = {}
       THEN /\ feedResp' = FeedRes("toggle_post_like", u, pk, 0, HTTP_404_NOT_FOUND,
                                   FALSE, 0)
            /\ UNCHANGED <<likes, toggled>>
       ELSE /\ likes' = flipped
            /\ toggled' = IF <<u, pk>> \in toggled
                          THEN toggled \ {<<u, pk>>}
                          ELSE toggled \cup {<<u, pk>>}
            /\ feedResp' = FeedRes("toggle_post_like", u, pk, 0, HTTP_200_OK,
                                   ~like_exists, likes_count(likes, pk))

\* toggle_post_like: the caller's like of the post is deleted when it exists
\* and created when it does not; the response counts the likes afterwards.
toggle_post_like(u, pk) ==
    LET like_exists == LikesOf(likes, u, pk) # {}
        flipped     == IF like_exists
                       THEN likes \ LikesOf(likes, u, pk)
                       ELSE likes \cup {PostLikeRow(likes, u, pk)}
    IN
    /\ UNCHANGED <<posts, comments, next_post_id, next_comment_id, toggleReqs, notFeed>>
    /\ IF GetPost(posts, pk) = {}
       THEN /\ feedResp' = FeedRes("toggle_post_like", u, pk, 0, HTTP_404_NOT_FOUND,
                                   FALSE, 0)
            /\ UNCHANGED <<likes, toggled>>
       ELSE /\ likes' = flipped
            /\ toggled' = IF <<u, pk>> \in toggled
                          THEN toggled \ {<<u, pk>>}
                          ELSE toggled \cup {<<u, pk>>}
            /\ feedResp' = FeedRes("toggle_post_like", u, pk, 0, HTTP_200_OK,
                                   ~like_exists, likes_count(flipped, pk))

\* post_comments, POST
create_comment(u, pk, content) ==
    /\ next_comment_id <= MaxComments
    /\ UNCHANGED <<posts, likes, next_post_id, toggled, toggleReqs, notFeed>>
    /\ IF GetPost(posts, pk) = {}
       THEN /\ feedResp' = FeedRes("create_comment", u, pk, 0, HTTP_404_NOT_FOUND, FALSE, 0)
            /\ UNCHANGED <<comments, next_comment_id>>
       ELSE IF content = ""
       THEN /\ feedResp' = FeedRes("create_comment", u, pk, 0, HTTP_400_BAD_REQUEST,
                                   FALSE, 0)
            /\ UNCHANGED <<comments, next_comment_id>>
       ELSE /\ comments' = comments \cup
                   {[id |-> next_comment_id, user |-> u, post |-> pk,
                     content |-> content]}
            /\ next_comment_id' = next_comment_id + 1
            /\ feedResp' = FeedRes("create_comment", u, pk, next_comment_id,
                                   HTTP_201_CREATED, FALSE, 0)

\* delete_comment
delete_comment(u, pk, comment_id) ==
    LET found   == GetComment(comments, comment_id, pk)
        comment == CHOOSE c \in found : TRUE
    IN
    /\ UNCHANGED <<posts, likes, next_post_id, next_comment_id, toggled, toggleReqs, notFeed>>
    /\ IF found = {}
       THEN /\ feedResp' = FeedRes("delete_comment", u, pk, comment_id,
                                   HTTP_404_NOT_FOUND, FALSE, 0)
            /\ UNCHANGED comments
       ELSE IF comment.user # u
       THEN /\ feedResp' = FeedRes("delete_comment", u, pk, comment_id,
                                   HTTP_403_FORBIDDEN, FALSE, 0)
            /\ UNCHANGED comments
       ELSE /\ comments' = comments \ {comment}
            /\ feedResp' = FeedRes("delete_comment", u, pk, comment_id,
                                   HTTP_204_NO_CONTENT, FALSE, 0)

FeedNext ==
    \/ \E u \in Users, content \in Contents : create_post(u, content)
    \/ \E u \in Users, pk \in ClientPostIds, content \in UpdateContents :
          update_post(u, pk, content)
    \/ \E u \in Users, pk \in ClientPostIds : destroy_post(u, pk)
    \/ \E u \in Users, pk \in ClientPostIds : toggle_post_like(u, pk)
    \/ \E u \in Users, pk \in ClientPostIds, content \in CommentContents :
          create_comment(u, pk, content)
    \/ \E u \in Users, pk \in ClientPostIds, comment_id \in ClientCommentIds :
          delete_comment(u, pk, comment_id)

\* order_by('-created_at') on the posts of S, as a sequence: ids are given in
\* the order of creation, so the newest post has the largest id.
RECURSIVE PostsNewestFirst(_)
PostsNewestFirst(S) ==
    IF S = {} THEN <<>>
    ELSE LET newest == CHOOSE p \in S : \A q \in S : q.id <= p.id
         IN  <<newest>> \o PostsNewestFirst(S \ {newest})

\* CommunityPostSerializer on one post for the caller u: get_likes_count and
\* get_comments_count read the model's likes_count and comments_count
\* properties, get_is_liked looks for the caller's like.
CommunityPostData(p, u) ==
    [id |-> p.id, author |-> p.author, content |-> p.content,
     likes_count |-> likes_count(likes, p.id),
     comments_count |-> comments_count(comments, p.id),
     is_liked |-> LikesOf(likes, u, p.id) # {}]

\* CommunityPostListCreateView, GET without a search term: every post,
\* newest first, serialized for the caller.
list_posts(u) ==
    LET ordered == PostsNewestFirst(posts)
    IN
    /\ feedResp' = [FeedRes("list_posts", u, 0, 0, HTTP_200_OK, FALSE, 0)
                      EXCEPT !.data = [i \in 1 .. Len(ordered) |->
                                          CommunityPostData(ordered[i], u)]]
    /\ UNCHANGED <<posts, likes, comments, next_post_id, next_comment_id, toggled,
                   toggleReqs, notFeed>>

\* The posts with their likes and comments, and the listing that reports the
\* counts.
FeedCountsNext ==
    \/ \E u \in Users, content \in Contents : create_post(u, content)
    \/ \E u \in Users, pk \in ClientPostIds : destroy_post(u, pk)
    \/ \E u \in Users, pk \in ClientPostIds : toggle_post_like(u, pk)
    \/ \E u \in Users, pk \in ClientPostIds, content \in CommentContents :
          create_comment(u, pk, content)
    \/ \E u \in Users, pk \in ClientPostIds, comment_id \in ClientCommentIds :
          delete_comment(u, pk, comment_id)
    \/ \E u \in Users : list_posts(u)

\* The posts and their likes: comments are left alone.
FeedLikesNext ==
    \/ \E u \in Users, content \in Contents : create_post(u, content)
    \/ \E u \in Users, pk \in ClientPostIds, content \in UpdateContents :
          update_post(u, pk, content)
    \/ \E u \in Users, pk \in ClientPostIds : destroy_post(u, pk)
    \/ \E u \in Users, pk \in ClientPostIds : toggle_post_like(u, pk)

\* The posts and their comments: likes are left alone.
FeedCommentsNext ==
    \/ \E u \in Users, content \in Contents : create_post(u, content)
    \/ \E u \in Users, pk \in ClientPostIds, content \in UpdateContents :
          update_post(u, pk, content)
    \/ \E u \in Users, pk \in ClientPostIds : destroy_post(u, pk)
    \/ \E u \in Users, pk \in ClientPostIds, content \in CommentContents :
          create_comment(u, pk, content)
    \/ \E u \in Users, pk \in ClientPostIds, comment_id \in ClientCommentIds :
          delete_comment(u, pk, comment_id)

(***************************************************************************)
(* toggle_post_like, one action per query, so that the requests of         *)
(* different workers interleave (no transaction, no row lock).             *)
(***************************************************************************)

\* lines 75-87: the post is fetched (404) and the existence of the caller's
\* like is read.
ToggleCheck(w, u, pk) ==
    /\ toggleReqs[w].pc = "idle"
    /\ UNCHANGED <<posts, likes, comments, next_post_id, next_comment_id, notFeed>>
    /\ IF GetPost(posts, pk) = {}
       THEN /\ feedResp' = FeedRes("toggle_post_like", u, pk, 0, HTTP_404_NOT_FOUND,
                                   FALSE, 0)
            /\ UNCHANGED <<toggled, toggleReqs>>
       ELSE /\ toggleReqs' = [toggleReqs EXCEPT ![w] =
                                 [pc |-> "flip", user |-> u, pk |-> pk,
                                  like_exists |-> LikesOf(likes, u, pk) # {}]]
            /\ toggled' = IF <<u, pk>> \in toggled
                          THEN toggled \ {<<u, pk>>}
                          ELSE toggled \cup {<<u, pk>>}
            /\ UNCHANGED feedResp

\* lines 89-98: the like is deleted (a delete of no row is not an error) or
\* inserted.  The INSERT of a (user, post) pair that is already there
\* violates unique_together: IntegrityError, which the view does not catch,
\* and the request ends with 500.
ToggleFlip(w) ==
    LET u  == toggleReqs[w].user
        pk == toggleReqs[w].pk
    IN
    /\ toggleReqs[w].pc = "flip"
    /\ UNCHANGED <<posts, comments, next_post_id, next_comment_id, toggled, notFeed>>
    /\ IF toggleReqs[w].like_exists
       THEN /\ likes' = likes \ LikesOf(likes, u, pk)
            /\ toggleReqs' = [toggleReqs EXCEPT ![w].pc = "count"]
            /\ UNCHANGED feedResp
       ELSE IF ~unique_together(likes, u, pk)
       THEN /\ feedResp' = FeedRes("toggle_post_like", u, pk, 0,
                                   HTTP_500_INTERNAL_SERVER_ERROR, FALSE, 0)
            /\ toggleReqs' = [toggleReqs EXCEPT ![w] = IdleToggle]
            /\ UNCHANGED likes
       ELSE /\ likes' = likes \cup {PostLikeRow(likes, u, pk)}
            /\ toggleReqs' = [toggleReqs EXCEPT ![w].pc = "count"]
            /\ UNCHANGED feedResp

\* lines 100-104: post.likes.count() is read and the response is given.
ToggleCount(w) ==
    /\ toggleReqs[w].pc = "count"
    /\ feedResp' = FeedRes("toggle_post_like", toggleReqs[w].user, toggleReqs[w].pk, 0,
                           HTTP_200_OK, ~toggleReqs[w].like_exists,
                           likes_count(likes, toggleReqs[w].pk))
    /\ toggleReqs' = [toggleReqs EXCEPT ![w] = IdleToggle]
    /\ UNCHANGED <<posts, likes, comments, next_post_id, next_comment_id, toggled,
                   notFeed>>

FeedConcNext ==
    \/ \E u \in Users, content \in Contents : create_post(u, content)
    \/ \E w \in Workers, u \in Users, pk \in ClientPostIds : ToggleCheck(w, u, pk)
    \/ \E w \in Workers : ToggleFlip(w)
    \/ \E w \in Workers : ToggleCount(w)

(***************************************************************************)
(*                          TUTORIAL CATALOG                               *)
(* Create, update and delete are one action each; increment_views is two   *)
(* steps (the SELECT of the row, the UPDATE of view_count), so that        *)
(* requests of different workers interleave.                               *)
(***************************************************************************)
MaxTutorials == 1     \* tutorials ever created
MaxViews     == 3     \* increment_views requests started per tutorial

\* User.user_type choices; None before the user has registered.
USER_TYPE_CHOICES == {"farmer", "extension_worker"}

\* request.data['title']; the empty string fails validation.
Titles == {"", "t1", "t2"}

ClientTutorialIds == 1 .. (MaxTutorials + 1)

\* validate_video: 100 * 1024 * 1024 bytes
MaxVideoSize == 100 * 1024 * 1024

\* validate_video: allowed_extensions
allowed_extensions == {".mp4", ".mov", ".avi", ".mkv", ".webm"}

\* The names of the files a client uploads.
VideoNames == {"a.mp4", "B.MOV", "c.exe", "d"}

\* os.path.splitext(name)[1]
SplitExt(name) ==
    CASE name = "a.mp4" -> ".mp4"
      [] name = "B.MOV" -> ".MOV"
      [] name = "c.exe" -> ".exe"
      [] OTHER          -> ""

\* str.lower(), on the extensions above
Lower(ext) == IF ext = ".MOV" THEN ".mov" ELSE ext

\* The request carries no video.
NoVideo == [name |-> "", size |-> 0]

\* request.data['video']: an uploaded file, with its name and its size in
\* bytes.
Videos ==
    {[name |-> n, size |-> sz] :
        n \in VideoNames, sz \in {MaxVideoSize, MaxVideoSize + 1}}

\* The video of the requests that are not about videos.
PlainVideo == [name |-> "a.mp4", size |-> MaxVideoSize]

\* A validation that looks at the size only.
validate_video_size(value) ==
    value # NoVideo => value.size <= MaxVideoSize

\* TutorialSerializer.validate_video: TRUE when no ValidationError is raised
\* ("if value:" skips the tests when there is no file).
validate_video(value) ==
    value # NoVideo =>
       /\ value.size <= MaxVideoSize
       /\ Lower(SplitExt(value.name)) \in allowed_extensions

LmsRes(op, u, pk, status, view_count) ==
    [op |-> op, user |-> u, pk |-> pk, status |-> status, view_count |-> view_count,
     title |-> "", video |-> NoVideo]

IdleInc == [pc |-> "idle", user |-> "", pk |-> 0, view_count |-> 0]

\* Tutorial.objects.get(pk=pk): the set of matching rows (empty or one).
GetTutorial(ts, pk) == {t \in ts : t.id = pk}

LmsInit ==
    /\ user_type = [u \in Users |-> None]
    /\ farmer_profiles = {}
    /\ worker_profiles = {}
    /\ tutorials = {}
    /\ storage = {}
    /\ next_tutorial_id = 1
    /\ incReqs = [w \in Workers |-> IdleInc]
    /\ incDone = [pk \in 1 .. MaxTutorials |-> 0]
    /\ lmsResp = LmsRes("none", "", 0, 0, 0)

\* FarmerProfile.objects.create(user=user, ...)
NewFarmerProfile(u) == [user |-> u]

\* ExtensionWorkerProfile.objects.create(user=user, ...): is_approved is
\* read-only in ExtensionWorkerProfileSerializer, so the row gets the default
\* of the field, False.
NewWorkerProfile(u) == [user |-> u, is_approved |-> FALSE]

\* FarmerRegistrationSerializer.create / ExtensionWorkerRegistrationSerializer
\* .create: create_user inserts the account with its user_type, then the
\* profile of that type is inserted.  The two INSERTs are not in one
\* transaction: when the second raises (profile_saved is FALSE), the account
\* stays without a profile.
register(u, t, profile_saved) ==
    /\ user_type[u] = None
    /\ user_type' = [user_type EXCEPT ![u] = t]
    /\ farmer_profiles' = IF profile_saved /\ t = "farmer"
                          THEN farmer_profiles \cup {NewFarmerProfile(u)}
                          ELSE farmer_profiles
    /\ worker_profiles' = IF profile_saved /\ t = "extension_worker"
                          THEN worker_profiles \cup {NewWorkerProfile(u)}
                          ELSE worker_profiles
    /\ lmsResp' = LmsRes("register", u, 0,
                         IF profile_saved THEN HTTP_201_CREATED
                         ELSE HTTP_500_INTERNAL_SERVER_ERROR, 0)
    /\ UNCHANGED <<tutorials, storage, next_tutorial_id, incReqs, incDone, notLms>>

\* A test that also asks for an approved ExtensionWorkerProfile.
IsApprovedExtensionWorker(u) ==
    /\ user_type[u] = "extension_worker"
    /\ \E p \in worker_profiles : p.user = u /\ p.is_approved

\* TutorialSerializer.validate and perform_create: the caller's user_type is
\* 'extension_worker' (nothing else about the caller is read).
IsExtensionWorker(u) == user_type[u] = "extension_worker"

\* TutorialListCreateView.create: is_valid(raise_exception=True) runs the
\* field validators (a video is required, validate_video) and
\* TutorialSerializer.validate, which rejects a caller who is not an
\* extension worker with a ValidationError (400); only then perform_create
\* runs, whose PermissionError would become 403 (its test strips and
\* lower-cases user_type first, which leaves both stored values as they
\* are).  serializer.save() writes the file to storage and inserts the row.
create_tutorial(u, title, video) ==
    /\ user_type[u] # None
    /\ next_tutorial_id <= MaxTutorials
    /\ UNCHANGED <<user_type, incReqs, incDone, profileVars, notLms>>
    /\ IF \/ title = ""
          \/ video = NoVideo
          \/ ~validate_video(video)
          \/ ~IsExtensionWorker(u)
       THEN /\ lmsResp' = [LmsRes("create_tutorial", u, 0, HTTP_400_BAD_REQUEST, 0)
                             EXCEPT !.video = video, !.title = title]
            /\ UNCHANGED <<tutorials, storage, next_tutorial_id>>
       ELSE IF ~IsExtensionWorker(u)
       THEN /\ lmsResp' = [LmsRes("create_tutorial", u, 0, HTTP_403_FORBIDDEN, 0)
                             EXCEPT !.video = video, !.title = title]
            /\ UNCHANGED <<tutorials, storage, next_tutorial_id>>
       ELSE /\ storage' = storage \cup {video}
            /\ tutorials' = tutorials \cup
                   {[id |-> next_tutorial_id, uploader |-> u, title |-> title,
                     video |-> video, view_count |-> 0]}
            /\ next_tutorial_id' = next_tutorial_id + 1
            /\ lmsResp' = [LmsRes("create_tutorial", u, next_tutorial_id,
                                  HTTP_201_CREATED, 0)
                             EXCEPT !.video = video, !.title = title]

\* An ownership test that every caller passes.
AnyCaller(tutorial, u) == TRUE

\* perform_update / perform_destroy: instance.uploader != self.request.user
\* raises PermissionError.
IsUploader(tutorial, u) == tutorial.uploader = u

\* TutorialDetailView.update: get_object (404), is_valid (400),
\* perform_update; its PermissionError is caught and answered with 403.  A
\* request without a video (PATCH) keeps the video of the row.
update_tutorial(u, pk, title, video) ==
    LET found    == GetTutorial(tutorials, pk)
        tutorial == CHOOSE t \in found : TRUE
    IN
    /\ user_type[u] # None
    /\ UNCHANGED <<user_type, next_tutorial_id, incReqs, incDone, profileVars, notLms>>
    /\ IF found = {}
       THEN /\ lmsResp' = [LmsRes("update_tutorial", u, pk, HTTP_404_NOT_FOUND, 0)
                             EXCEPT !.video = video]
            /\ UNCHANGED <<tutorials, storage>>
       ELSE IF title = "" \/ ~validate_video(video)
       THEN /\ lmsResp' = [LmsRes("update_tutorial", u, pk, HTTP_400_BAD_REQUEST, 0)
                             EXCEPT !.video = video]
            /\ UNCHANGED <<tutorials, storage>>
       ELSE IF ~IsUploader(tutorial, u)
       THEN /\ lmsResp' = [LmsRes("update_tutorial", u, pk, HTTP_403_FORBIDDEN, 0)
                             EXCEPT !.video = video]
            /\ UNCHANGED <<tutorials, storage>>
       ELSE /\ storage' = IF video = NoVideo THEN storage ELSE storage \cup {video}
            /\ tutorials' = (tutorials \ {tutorial})
                               \cup {[tutorial EXCEPT
                                        !.title = title,
                                        !.video = IF video = NoVideo THEN @ ELSE video]}
            /\ lmsResp' = [LmsRes("update_tutorial", u, pk, HTTP_200_OK,
                                  tutorial.view_count) EXCEPT !.video = video]

\* TutorialDetailView.destroy: the row is deleted; its file stays in storage.
destroy_tutorial(u, pk) ==
    LET found    == GetTutorial(tutorials, pk)
        tutorial == CHOOSE t \in found : TRUE
    IN
    /\ user_type[u] # None
    /\ UNCHANGED <<user_type, storage, next_tutorial_id, incReqs, incDone, profileVars, notLms>>
    /\ IF found = {}
       THEN /\ lmsResp' = LmsRes("destroy_tutorial", u, pk, HTTP_404_NOT_FOUND, 0)
            /\ UNCHANGED tutorials
       ELSE IF ~IsUploader(tutorial, u)
       THEN /\ lmsResp' = LmsRes("destroy_tutorial", u, pk, HTTP_403_FORBIDDEN, 0)
            /\ UNCHANGED tutorials
       ELSE /\ tutorials' = tutorials \ {tutorial}
            /\ lmsResp' = LmsRes("destroy_tutorial", u, pk, HTTP_204_NO_CONTENT, 0)

\* The increment_views requests on tutorial pk that have read the row and not
\* yet written it.
InFlight(pk) == {w \in Workers : incReqs[w].pc = "save" /\ incReqs[w].pk = pk}

\* increment_views, lines 126-132: the row is loaded into memory.
IncGet(w, u, pk) ==
    LET found    == GetTutorial(tutorials, pk)
        tutorial == CHOOSE t \in found : TRUE
    IN
    /\ user_type[u] # None
    /\ incReqs[w].pc = "idle"
    /\ UNCHANGED <<user_type, tutorials, storage, next_tutorial_id, incDone, profileVars, notLms>>
    /\ IF found = {}
       THEN /\ lmsResp' = LmsRes("increment_views", u, pk, HTTP_404_NOT_FOUND, 0)
            /\ UNCHANGED incReqs
       ELSE /\ incDone[pk] + Cardinality(InFlight(pk)) < MaxViews
            /\ incReqs' = [incReqs EXCEPT ![w] =
                              [pc |-> "save", user |-> u, pk |-> pk,
                               view_count |-> tutorial.view_count]]
            /\ UNCHANGED lmsResp

\* Tutorial.increment_view_count: self.view_count += 1 on the loaded
\* instance, then save(update_fields=['view_count']), an UPDATE that writes
\* the computed value; it raises when the row is gone (500).
IncSave(w) ==
    LET u          == incReqs[w].user
        pk         == incReqs[w].pk
        found      == GetTutorial(tutorials, pk)
        tutorial   == CHOOSE t \in found : TRUE
        view_count == incReqs[w].view_count + 1
    IN
    /\ incReqs[w].pc = "save"
    /\ incReqs' = [incReqs EXCEPT ![w] = IdleInc]
    /\ UNCHANGED <<user_type, storage, next_tutorial_id, profileVars, notLms>>
    /\ IF found = {}
       THEN /\ lmsResp' = LmsRes("increment_views", u, pk,
                                 HTTP_500_INTERNAL_SERVER_ERROR, 0)
            /\ UNCHANGED <<tutorials, incDone>>
       ELSE /\ tutorials' = (tutorials \ {tutorial})
                               \cup {[tutorial EXCEPT !.view_count = view_count]}
            /\ incDone' = [incDone EXCEPT ![pk] = @ + 1]
            /\ lmsResp' = LmsRes("increment_views", u, pk, HTTP_200_OK, view_count)

LmsNext ==
    \/ \E u \in Users, t \in USER_TYPE_CHOICES : register(u, t, TRUE)
    \/ \E u \in Users, title \in Titles : create_tutorial(u, title, PlainVideo)
    \/ \E u \in Users, pk \in ClientTutorialIds, title \in Titles :
          update_tutorial(u, pk, title, NoVideo)
    \/ \E u \in Users, pk \in ClientTutorialIds : destroy_tutorial(u, pk)
    \/ \E w \in Workers, u \in Users, pk \in ClientTutorialIds : IncGet(w, u, pk)
    \/ \E w \in Workers : IncSave(w)

\* UserSerializer.Meta.read_only_fields
read_only_fields == {"id", "created_at", "is_verified", "user_type", "username"}

\* serializer.validated_data: the fields of the request that are not
\* read-only.  A request is the set of the <<field, value>> pairs it sends.
ValidatedData(data) == {f \in data : f[1] \notin read_only_fields}

\* What a client sends to update_profile_view: a first name, always; a
\* user_type or nothing; farmer_profile data or nothing.
ProfileData ==
    {{<<"first_name", "n">>} \cup ut \cup fp :
        ut \in {{}} \cup {{<<"user_type", t>>} : t \in USER_TYPE_CHOICES},
        fp \in {{}, {<<"farmer_profile", "farm">>}}}

\* A test that every user passes.
AnyUserType(ut, u) == TRUE

\* UserSerializer.update: instance.user_type == 'farmer'
IsFarmer(ut, u) == ut[u] = "farmer"

\* update_profile_view with UserSerializer.update: the validated fields are
\* set on the user and saved; when farmer_profile data came and the user is
\* a farmer, the FarmerProfile is fetched, or created when there is none,
\* and written.
update_profile_view(u, data) ==
    LET validated_data      == ValidatedData(data)
        farmer_profile_data == {f \in validated_data : f[1] = "farmer_profile"}
        saved_type          == IF \E f \in validated_data : f[1] = "user_type"
                               THEN (CHOOSE f \in validated_data : f[1] = "user_type")[2]
                               ELSE user_type[u]
        saved               == [user_type EXCEPT ![u] = saved_type]
    IN
    /\ user_type[u] # None
    /\ user_type' = saved
    /\ farmer_profiles' =
          IF farmer_profile_data # {} /\ IsFarmer(saved, u)
          THEN farmer_profiles \cup {NewFarmerProfile(u)}
          ELSE farmer_profiles
    /\ lmsResp' = LmsRes("update_profile", u, 0, HTTP_200_OK, 0)
    /\ UNCHANGED <<worker_profiles, tutorials, storage, next_tutorial_id, incReqs,
                   incDone, notLms>>

\* The admin site, where ExtensionWorkerProfile is registered: a staff member
\* sets is_approved of a profile.
admin_set_is_approved(u, approved) ==
    /\ \E p \in worker_profiles : p.user = u /\ p.is_approved # approved
    /\ worker_profiles' = {[p EXCEPT !.is_approved =
                                IF p.user = u THEN approved ELSE @] :
                             p \in worker_profiles}
    /\ UNCHANGED <<user_type, farmer_profiles, tutorials, storage, next_tutorial_id,
                   incReqs, incDone, lmsResp, notLms>>

\* Accounts and profiles through the API, the approval by the admin site,
\* and the creation of tutorials.
ProfilesNext ==
    \/ \E u \in Users, t \in USER_TYPE_CHOICES, profile_saved \in BOOLEAN :
          register(u, t, profile_saved)
    \/ \E u \in Users, data \in ProfileData : update_profile_view(u, data)
    \/ \E u \in Users, approved \in BOOLEAN : admin_set_is_approved(u, approved)
    \/ \E u \in Users, title \in Titles, video \in {PlainVideo, NoVideo} :
          create_tutorial(u, title, video)
    \/ \E u \in Users, pk \in ClientTutorialIds : destroy_tutorial(u, pk)

\* The uploads: every video a client can send, one title.
UploadNext ==
    \/ \E u \in Users, t \in USER_TYPE_CHOICES : register(u, t, TRUE)
    \/ \E u \in Users, video \in Videos \cup {NoVideo} : create_tutorial(u, "t1", video)
    \/ \E u \in Users, pk \in ClientTutorialIds, video \in Videos \cup {NoVideo} :
          update_tutorial(u, pk, "t2", video)
    \/ \E u \in Users, pk \in ClientTutorialIds : destroy_tutorial(u, pk)

(***************************************************************************)
(*                         ACCOUNTS AND TOKENS                             *)
(* Requests are handled one at a time; every handler is one action.  A     *)
(* Token row is [key, user]: key is the primary key, user a one-to-one     *)
(* reference.                                                              *)
(***************************************************************************)
MaxKeys == 3      \* tokens ever created

\* Passwords a client can send; the empty string fails every serializer
\* (CharField(required=True) does not allow blank).
Passwords == {"", "p", "q"}

\* Usernames a client can send: "nobody" never registers.
Usernames == Users \cup {"nobody"}

\* The key of an Authorization header: 0 is "no header", and MaxKeys + 1 is
\* a key no token ever has.
ClientKeys == 0 .. (MaxKeys + 1)

AuthRes(op, u, presented, status, token, created) ==
    [op |-> op, user |-> u, presented |-> presented, status |-> status,
     token |-> token, created |-> created]

AuthInit ==
    /\ password = [u \in Users |-> None]
    /\ tokens = {}
    /\ next_key = 1
    /\ revoked = {}
    /\ authResp = AuthRes("none", "nobody", 0, 0, 0, FALSE)

\* Token.objects.filter(user=u)
TokensOf(toks, u) == {t \in toks : t.user = u}

\* Token.objects.create(user=u), whether or not u has a token already.
AlwaysCreate(toks, u, key) ==
    LET token == [key |-> key, user |-> u]
    IN  [token |-> token, created |-> TRUE, tokens |-> toks \cup {token}]

\* Token.objects.get_or_create(user=u); key is what generate_key() yields
\* when a row is created.
GetOrCreate(toks, u, key) ==
    IF TokensOf(toks, u) # {}
    THEN [token |-> CHOOSE t \in TokensOf(toks, u) : TRUE, created |-> FALSE,
          tokens |-> toks]
    ELSE LET token == [key |-> key, user |-> u]
         IN  [token |-> token, created |-> TRUE, tokens |-> toks \cup {token}]

\* A delete that removes nothing.
KeepTokensOf(toks, u) == toks

\* Token.objects.filter(user=u).delete()
DeleteTokensOf(toks, u) == toks \ TokensOf(toks, u)

\* The user a request carrying key authenticates as, None when the key is
\* the key of no token row.
Authenticate(toks, key) ==
    IF \E t \in toks : t.key = key
    THEN (CHOOSE t \in toks : t.key = key).user
    ELSE None

\* django.contrib.auth.authenticate: the user when the password matches.
CheckPassword(pw, u, raw) == u \in Users /\ pw[u] # None /\ pw[u] = raw

\* FarmerRegistrationView.create and ExtensionWorkerRegistrationView.create
\* (lines 26-41, 51-67): an invalid body (a taken username, a blank
\* password, a confirmation that differs) is refused; else the user is
\* created and gets a token.
RegistrationView_create(u, raw, confirm) ==
    LET got == GetOrCreate(tokens, u, next_key)
    IN
    /\ UNCHANGED <<revoked, notAuth>>
    /\ IF password[u] # None \/ raw = "" \/ raw # confirm
       THEN /\ authResp' = AuthRes("register", u, 0, HTTP_400_BAD_REQUEST, 0, FALSE)
            /\ UNCHANGED <<password, tokens, next_key>>
       ELSE /\ password' = [password EXCEPT ![u] = raw]
            /\ tokens' = got.tokens
            /\ next_key' = IF got.created THEN next_key + 1 ELSE next_key
            /\ authResp' = AuthRes("register", u, 0, HTTP_201_CREATED,
                                   got.token.key, got.created)

\* login_view (lines 70-86), with LoginSerializer.validate
login_view(username, raw) ==
    LET got == GetOrCreate(tokens, username, next_key)
    IN
    /\ UNCHANGED <<password, revoked, notAuth>>
    /\ IF raw # "" /\ CheckPassword(password, username, raw)
       THEN /\ tokens' = got.tokens
            /\ next_key' = IF got.created THEN next_key + 1 ELSE next_key
            /\ authResp' = AuthRes("login_view", username, 0, HTTP_200_OK,
                                   got.token.key, got.created)
       ELSE /\ authResp' = AuthRes("login_view", username, 0, HTTP_400_BAD_REQUEST,
                                   0, FALSE)
            /\ UNCHANGED <<tokens, next_key>>

\* logout_view (lines 89-117), reached by an authenticated request only
logout_view(key) ==
    LET user         == Authenticate(tokens, key)
        token_exists == TokensOf(tokens, user) # {}
    IN
    /\ UNCHANGED <<password, next_key, notAuth>>
    /\ IF user = None
       THEN /\ authResp' = AuthRes("logout_view", "nobody", key,
                                   HTTP_401_UNAUTHORIZED, 0, FALSE)
            /\ UNCHANGED <<tokens, revoked>>
       ELSE /\ tokens' = IF token_exists THEN DeleteTokensOf(tokens, user) ELSE tokens
            /\ revoked' = revoked \cup {t.key : t \in TokensOf(tokens, user)}
            /\ authResp' = AuthRes("logout_view", user, key, HTTP_200_OK, 0, FALSE)

\* change_password_view (lines 180-203), with ChangePasswordSerializer
change_password_view(key, old_password, new_password, new_password_confirm) ==
    LET user  == Authenticate(tokens, key)
        token == [key |-> next_key, user |-> user]
    IN
    /\ UNCHANGED notAuth
    /\ IF user = None
       THEN /\ authResp' = AuthRes("change_password_view", "nobody", key,
                                   HTTP_401_UNAUTHORIZED, 0, FALSE)
            /\ UNCHANGED <<password, tokens, next_key, revoked>>
       ELSE IF \/ old_password = "" \/ new_password = ""
               \/ ~CheckPassword(password, user, old_password)
               \/ new_password # new_password_confirm
       THEN /\ authResp' = AuthRes("change_password_view", user, key,
                                   HTTP_400_BAD_REQUEST, 0, FALSE)
            /\ UNCHANGED <<password, tokens, next_key, revoked>>
       ELSE /\ password' = [password EXCEPT ![user] = new_password]
            /\ tokens' = DeleteTokensOf(tokens, user) \cup {token}
            /\ next_key' = next_key + 1
            /\ revoked' = revoked \cup {t.key : t \in TokensOf(tokens, user)}
            /\ authResp' = AuthRes("change_password_view", user, key, HTTP_200_OK,
                                   token.key, TRUE)

\* At most MaxKeys tokens are ever created.
KeysBounded == next_key' <= MaxKeys + 1

AuthNext ==
    \/ \E u \in Users, raw \in Passwords, confirm \in Passwords :
          RegistrationView_create(u, raw, confirm) /\ KeysBounded
    \/ \E username \in Usernames, raw \in Passwords :
          login_view(username, raw) /\ KeysBounded
    \/ \E key \in ClientKeys : logout_view(key)
    \/ \E key \in ClientKeys, old \in Passwords, new \in Passwords, confirm \in Passwords :
          change_password_view(key, old, new, confirm) /\ KeysBounded

Init == ChatInit /\ TipInit /\ FeedInit /\ LmsInit /\ AuthInit

SpecChat == Init /\ [][ChatNext]_vars

SpecChatConc == Init /\ [][ChatConcNext]_vars

SpecChatList == Init /\ [][ChatListNext]_vars

SpecTip == Init /\ [][TipNext]_vars

SpecFeed == Init /\ [][FeedNext]_vars

SpecFeedLikes == Init /\ [][FeedLikesNext]_vars

SpecFeedComments == Init /\ [][FeedCommentsNext]_vars

SpecFeedCounts == Init /\ [][FeedCountsNext]_vars

SpecFeedConc == Init /\ [][FeedConcNext]_vars

SpecLms == Init /\ [][LmsNext]_vars

SpecProfiles == Init /\ [][ProfilesNext]_vars

SpecUpload == Init /\ [][UploadNext]_vars

SpecAuth == Init /\ [][AuthNext]_vars

(***************************************************************************)
(*                  CLAIMS ABOUT THE CHAT SESSION MANAGER                  *)
(***************************************************************************)

\* The transcript of a session in the order its messages were appended
\* (the order of the auto-increment key).
RECURSIVE OrderById(_)
OrderById(S) ==
    IF S = {} THEN <<>>
    ELSE LET m == CHOOSE x \in S : \A y \in S : x.id <= y.id
         IN  <<m>> \o OrderById(S \ {m})

AppendOrder(ms, sid) ==
    LET rows == OrderById(SessionMessages(ms, sid))
    IN  [i \in 1 .. Len(rows) |->
            [role |-> rows[i].role, message |-> rows[i].message,
             created_at |-> rows[i].created_at]]

RolesAndTexts(h) == [i \in 1 .. Len(h) |-> <<h[i].role, h[i].message>>]

\* C1, the step of a chat turn: when the external model replied, the
\* transcript of the turn's session, read as get_chat_history reads it, is
\* the old one followed by the user message and then the model's reply, and
\* no other transcript changes; when the external model failed, no message
\* is added or removed.
C1_TurnStep ==
    LET r  == chatResp'.req
        id == chatResp'.res.session_id
    IN  /\ r.called = "replied" =>
             /\ chatResp'.res.status = HTTP_200_OK
             /\ RolesAndTexts(HistoryOf(messages', id)) =
                    RolesAndTexts(HistoryOf(messages, id))
                      \o << <<"user", Strip(r.message)>>,
                            <<"model", chatResp'.res.response>> >>
             /\ Cardinality(messages') = Cardinality(messages) + 2
             /\ messages \subseteq messages'
        /\ r.called = "failed" => messages' = messages

\* C1, get_chat_history: the history returned is the transcript in the
\* order the messages were appended.
C1_HistoryInAppendOrder ==
    (chatResp.req.op = "get_chat_history" /\ chatResp.res.status = HTTP_200_OK)
        => chatResp.res.history = AppendOrder(messages, chatResp.req.session_id)

\* C1: a chat turn appends exactly two messages, user then model, when the
\* external model call succeeds, and none when it fails; get_chat_history
\* returns the messages in the order they were appended.
C1_ChatTurnAppendsTwo == [][C1_TurnStep]_vars /\ []C1_HistoryInAppendOrder

\* C1 witness: a second successful turn on a session has just completed, so
\* its transcript holds four messages.
C1_Witness ==
    /\ chatResp.req.op = "chat_with_ai"
    /\ chatResp.req.called = "replied"
    /\ Cardinality(SessionMessages(messages, chatResp.res.session_id)) = 4

\* The chat operations that take a session_id.
SessionOps == {"chat_with_ai", "get_chat_history", "clear_chat_session",
               "delete_chat_session"}

\* The request of the step names a session that exists and belongs to
\* another user.
ForeignSession(r, ss) ==
    /\ r.op \in SessionOps
    /\ \E s \in ss : s.session_id = r.session_id /\ s.user # r.user

\* The request of the step names an id no session has.
UnknownSession(r, ss) ==
    /\ r.op \in SessionOps
    /\ r.session_id # 0
    /\ \A s \in ss : s.session_id # r.session_id

\* What a request with an unknown or a foreign session id is answered.
RefusalAmended(r) ==
    IF r.op = "chat_with_ai" /\ Strip(r.message) = ""
    THEN ChatRes(HTTP_400_BAD_REQUEST, "Message is required")
    ELSE NotFoundRes

\* Rows of other users than u.
RowsOfOthers(ss, ms, u) ==
    <<{s \in ss : s.user # u},
      {m \in ms : \E s \in ss : s.session_id = m.session /\ s.user # u}>>

\* Every session a response shows belongs to the caller.
ShowsOnlyOwn(resp, ss) ==
    LET u == resp.req.user
        shown == {resp.res.sessions[i].session_id : i \in 1 .. Len(resp.res.sessions)}
                 \cup (IF resp.res.status = HTTP_200_OK /\ resp.res.session_id # 0
                       THEN {resp.res.session_id} ELSE {})
    IN  \A id \in shown : \E s \in ss : s.session_id = id /\ s.user = u

C3_StepAmended ==
    LET r == chatResp'.req
    IN  /\ (ForeignSession(r, sessions) \/ UnknownSession(r, sessions)) =>
              /\ chatResp'.res = RefusalAmended(r)
              /\ sessions' = sessions
              /\ messages' = messages
        /\ RowsOfOthers(sessions', messages', r.user)
              = RowsOfOthers(sessions, messages, r.user)
        /\ ShowsOnlyOwn(chatResp', sessions')

\* C3 (amended): a chat operation called with the id of another user's
\* session is answered exactly as for an id that does not exist - 404
\* "Session not found or access denied", or 400 "Message is required" when
\* chat_with_ai's message is empty - and changes nothing; no call changes a
\* row of another user, and no response shows a session of another user.
C3_ForeignSessionLooksUnknown == [][C3_StepAmended]_vars

\* C3 witness: a user has just been refused a session that exists and
\* belongs to another user, which holds messages.
C3_Witness ==
    /\ chatResp.req.op \in SessionOps
    /\ chatResp.res = NotFoundRes
    /\ \E s \in sessions :
          /\ s.session_id = chatResp.req.session_id
          /\ s.user # chatResp.req.user
          /\ SessionMessages(messages, s.session_id) # {}

\* C3 as stated: the answer to the id of another user's session is always
\* the 404 response, and nothing changes.
C3_ForeignSessionAlways404 ==
    [][ForeignSession(chatResp'.req, sessions) =>
          /\ chatResp'.res = NotFoundRes
          /\ sessions' = sessions
          /\ messages' = messages]_vars

\* C2 as stated: whatever get_chat_history or get_chat_sessions returns, at
\* any moment of a chat turn in flight, counts an even number of messages
\* for a session.
C2_ReadersSeeEvenCounts ==
    /\ (chatResp.req.op = "get_chat_history" /\ chatResp.res.status = HTTP_200_OK)
          => Len(chatResp.res.history) % 2 = 0
    /\ chatResp.req.op = "get_chat_sessions"
          => \A i \in 1 .. Len(chatResp.res.sessions) :
                chatResp.res.sessions[i].message_count % 2 = 0

\* The ids of the sessions a get_chat_sessions response lists.
Listed(res) == {res.sessions[i].session_id : i \in 1 .. Len(res.sessions)}

\* C12, the step of clear_chat_session on a session of the caller: it is
\* answered 200, the session is inactive afterwards, no session and no
\* message is removed or changed otherwise, and the transcript is as before.
C12_ClearStep ==
    LET r     == chatResp'.req
        owned == {s \in sessions : s.session_id = r.session_id /\ s.user = r.user}
    IN  (r.op = "clear_chat_session" /\ owned # {}) =>
           /\ chatResp'.res.status = HTTP_200_OK
           /\ messages' = messages
           /\ \A s \in sessions' : s.session_id = r.session_id => ~s.is_active
           /\ {s \in sessions' : s.session_id # r.session_id}
                 = {s \in sessions : s.session_id # r.session_id}
           /\ {s.session_id : s \in sessions'} = {s.session_id : s \in sessions}
           /\ HistoryOf(messages', r.session_id) = HistoryOf(messages, r.session_id)

\* C12: no step makes an inactive session active again.
C12_InactiveStays ==
    \A s \in sessions : \A s2 \in sessions' :
       (s2.session_id = s.session_id /\ ~s.is_active) => ~s2.is_active

\* C12, the readers: get_chat_sessions lists no inactive session, and
\* get_chat_history of a session of the caller, inactive or not, returns
\* its whole transcript.
C12_Readers ==
    /\ chatResp.req.op = "get_chat_sessions" =>
          \A s \in sessions : ~s.is_active => s.session_id \notin Listed(chatResp.res)
    /\ (/\ chatResp.req.op = "get_chat_history"
        /\ \E s \in sessions : /\ s.session_id = chatResp.req.session_id
                               /\ s.user = chatResp.req.user)
          => /\ chatResp.res.status = HTTP_200_OK
             /\ chatResp.res.history = AppendOrder(messages, chatResp.req.session_id)

SessionIds(ss) == {s.session_id : s \in ss}

\* The ids that were given to a session which exists no longer.
DeletedIds(ss, next) == (1 .. (next - 1)) \ SessionIds(ss)

\* C13, the step of delete_chat_session on a session of the caller: it is
\* answered 200, and the session and exactly its messages are gone.
C13_DeleteStep ==
    LET r     == chatResp'.req
        owned == {s \in sessions : s.session_id = r.session_id /\ s.user = r.user}
    IN  (r.op = "delete_chat_session" /\ owned # {}) =>
           /\ chatResp'.res.status = HTTP_200_OK
           /\ sessions' = sessions \ owned
           /\ messages' = {m \in messages : m.session # r.session_id}

\* C13: the id of a deleted session never names a session again.
C13_DeletedStays ==
    DeletedIds(sessions, next_uuid) \subseteq DeletedIds(sessions', next_uuid')

\* C13 (amended), a request with the id of a deleted session: it is answered
\* 404 - or 400 when it is a chat_with_ai with an empty message - and
\* changes nothing.
C13_AfterDeleteAmended ==
    LET r == chatResp'.req
    IN  (r.op \in SessionOps /\ r.session_id \in DeletedIds(sessions, next_uuid)) =>
           /\ chatResp'.res = RefusalAmended(r)
           /\ sessions' = sessions
           /\ messages' = messages

\* C13: every message belongs to a session that exists.
C13_NoOrphanMessage ==
    \A m \in messages : m.session \in SessionIds(sessions)

SessionRow(ss, id) == CHOOSE s \in ss : s.session_id = id

\* The message of session id that was appended last.
LastAppended(ms, id) ==
    CHOOSE m \in SessionMessages(ms, id) :
       \A m2 \in SessionMessages(ms, id) : m2.id <= m.id

\* C14, the response of get_chat_sessions: it lists exactly the caller's
\* active sessions, each once, the most recently updated first, each with
\* the number of its messages and the text of the message appended last
\* (None when it has no message).
C14_Listing ==
    LET u    == chatResp.req.user
        data == chatResp.res.sessions
    IN  chatResp.req.op = "get_chat_sessions" =>
           /\ chatResp.res.status = HTTP_200_OK
           /\ Listed(chatResp.res)
                 = {s.session_id : s \in {x \in sessions : x.user = u /\ x.is_active}}
           /\ Len(data) = Cardinality(Listed(chatResp.res))
           /\ \A i \in 1 .. Len(data) : \A j \in 1 .. Len(data) :
                 i < j => SessionRow(sessions, data[i].session_id).updated_at
                            > SessionRow(sessions, data[j].session_id).updated_at
           /\ \A i \in 1 .. Len(data) :
                 LET id == data[i].session_id
                 IN  /\ data[i].message_count
                           = Cardinality(SessionMessages(messages, id))
                     /\ data[i].last_message
                           = IF SessionMessages(messages, id) = {} THEN None
                             ELSE LastAppended(messages, id).message

\* C14, the step of a successful chat turn: the session of the turn is, of
\* all sessions, the one updated last.
C14_TurnTouches ==
    LET id == chatResp'.res.session_id
    IN  chatResp'.req.called = "replied" =>
           \A s \in sessions' :
              s.session_id # id =>
                 s.updated_at < SessionRow(sessions', id).updated_at

\* C14: get_chat_sessions returns exactly the caller's active sessions,
\* most recently touched first, with message_count and last_message of each;
\* a successful chat turn makes its session the most recently touched, hence
\* the first of the list when it is active.
C14_SessionsListed == []C14_Listing /\ [][C14_TurnTouches]_vars

\* C14 witness: a listing of two sessions in which the session created
\* first comes first, because a chat turn touched it after the other had
\* been created; the other has no message.
C14_Witness ==
    /\ chatResp.req.op = "get_chat_sessions"
    /\ Len(chatResp.res.sessions) = 2
    /\ chatResp.res.sessions[1].session_id < chatResp.res.sessions[2].session_id
    /\ chatResp.res.sessions[1].message_count = 2
    /\ chatResp.res.sessions[1].last_message = "reply"
    /\ chatResp.res.sessions[2].last_message = None

\* The texts of seq occur in inp one after the other, in this order.
ContainsInOrder(inp, seq) ==
    \E off \in 0 .. (Len(inp) - Len(seq)) :
       \A i \in 1 .. Len(seq) : inp[off + i] = seq[i]

\* C20 as stated, the step of a chat turn that reached the external model
\* and got its reply: what the model was given contains the messages stored
\* for the session before the turn, in creation order, the system
\* instruction, and last the new user message.
C20_HistoryReplayed ==
    [][LET req   == chatResp'.req
           id    == chatResp'.res.session_id
           prior == BuildContents(messages, id, Strip(req.message))
       IN  (req.op = "chat_with_ai" /\ req.called = "replied")
              => /\ ContainsInOrder(req.sent, SubSeq(prior, 1, Len(prior) - 1))
                 /\ \E i \in 1 .. Len(req.sent) :
                       req.sent[i].text = SYSTEM_INSTRUCTION
                 /\ req.sent[Len(req.sent)] = Part("user", Strip(req.message))]_vars

\* What the code does: whatever is stored, the model is given the system
\* instruction and the new message, and nothing else.
C20_OnlyInstructionAndMessage ==
    chatResp.req.called # "no" =>
       chatResp.req.sent = <<Part("user", SYSTEM_INSTRUCTION),
                             Part("user", Strip(chatResp.req.message))>>

\* C28, one-way: a session that is inactive is inactive after the step, if
\* it is still there.
C28_OneWayStep ==
    \A s \in sessions : ~s.is_active =>
       \A n \in sessions' : n.session_id = s.session_id => ~n.is_active

\* C28, the step of a turn with a non-empty message on a cleared session of
\* the caller: it is answered 200 with two more messages in the session,
\* unless the external model failed (500); it is not refused.
C28_TurnOnClearedStep ==
    LET r       == chatResp'.req
        cleared == {s \in sessions : /\ s.session_id = r.session_id
                                    /\ s.user = r.user
                                    /\ ~s.is_active}
        before  == SessionMessages(messages, r.session_id)
        after   == SessionMessages(messages', r.session_id)
    IN  (r.op = "chat_with_ai" /\ Strip(r.message) # "" /\ cleared # {}) =>
           /\ chatResp'.res.status
                 = IF r.called = "failed" THEN HTTP_500_INTERNAL_SERVER_ERROR
                   ELSE HTTP_200_OK
           /\ chatResp'.res.status = HTTP_200_OK =>
                 /\ before \subseteq after
                 /\ Cardinality(after) = Cardinality(before) + 2
                 /\ {m.role : m \in after \ before} = {"user", "model"}

\* C28, the listing: what get_chat_sessions has just returned holds no
\* inactive session.
C28_ClearedNotListed ==
    chatResp.req.op = "get_chat_sessions" =>
       Listed(chatResp.res) \subseteq
          {s.session_id : s \in {x \in sessions : x.is_active}}

IsError(res) ==
    res.status \in {HTTP_400_BAD_REQUEST, HTTP_404_NOT_FOUND,
                    HTTP_500_INTERNAL_SERVER_ERROR}

\* C29, the step of a turn that ends in an error.  With a session_id or an
\* empty message, sessions and messages are as before.  Without session_id
\* and with a non-empty message the response is 500, and there is one more
\* session: a new one, active, owned by the caller, without messages.
C29_ErrorStep ==
    LET r == chatResp'.req
    IN  (r.op = "chat_with_ai" /\ IsError(chatResp'.res)) =>
           /\ messages' = messages
           /\ IF r.session_id # 0 \/ Strip(r.message) = ""
              THEN sessions' = sessions
              ELSE /\ chatResp'.res.status = HTTP_500_INTERNAL_SERVER_ERROR
                   /\ sessions \subseteq sessions'
                   /\ \E n \in sessions' \ sessions :
                         /\ sessions' = sessions \cup {n}
                         /\ n.user = r.user
                         /\ n.is_active
                         /\ n.session_id \notin {s.session_id : s \in sessions}
                         /\ SessionMessages(messages', n.session_id) = {}

\* C29, the listing: get_chat_sessions shows every active session of the
\* caller that has no message with message_count 0 and last_message null.
C29_EmptySessionListed ==
    chatResp.req.op = "get_chat_sessions" =>
       \A s \in sessions :
          (/\ s.user = chatResp.req.user
           /\ s.is_active
           /\ SessionMessages(messages, s.session_id) = {})
             => \E i \in 1 .. Len(chatResp.res.sessions) :
                   /\ chatResp.res.sessions[i].session_id = s.session_id
                   /\ chatResp.res.sessions[i].message_count = 0
                   /\ chatResp.res.sessions[i].last_message = None

\* C29: a turn that ends in an error changes nothing when a session_id was
\* supplied or the message was empty; a turn without session_id whose model
\* call fails leaves a new empty active session of the caller, which
\* get_chat_sessions lists with message_count 0 and last_message null.
C29_FailedTurnLeavesSession == [][C29_ErrorStep]_vars /\ []C29_EmptySessionListed

\* C29 witness: the caller's listing shows a session without messages.
C29_Witness ==
    /\ chatResp.req.op = "get_chat_sessions"
    /\ \E i \in 1 .. Len(chatResp.res.sessions) :
          /\ chatResp.res.sessions[i].message_count = 0
          /\ chatResp.res.sessions[i].last_message = None
          /\ \E s \in sessions :
                /\ s.session_id = chatResp.res.sessions[i].session_id
                /\ s.user = chatResp.req.user

(***************************************************************************)
(*                   CLAIMS ABOUT THE DAILY TIP CACHE                      *)
(***************************************************************************)

\* C4 as stated: of two consecutive responses to requests made on the same
\* calendar day, the second carries the tip string of the first and reports
\* cached = true, whatever the external model did on the first request and
\* however other tip requests interleave.
C4_SameDaySameTipCached ==
    [][(/\ tipResp' # tipResp
        /\ tipResp.res.status # 0
        /\ tipResp'.today = tipResp.today)
          => /\ tipResp'.res.tip = tipResp.res.tip
             /\ tipResp'.res.cached]_vars

\* C5 as stated: get_daily_farming_tip never raises an error to the caller;
\* whatever the cache holds and whatever fails (the external model, a cache
\* read), every response is a 200.
C5_NeverErrors ==
    tipResp.res.status # 0 => tipResp.res.status = HTTP_200_OK

\* Worker w leaves the except branch: its request ends.
LeavesExcept(w) ==
    /\ tipReqs[w].pc = "except"
    /\ tipReqs'[w].pc = "idle"

\* Worker w leaves the except branch with an answer of the view: the read
\* of yesterday's key returned (it did not raise).
ExceptAnswers(w) ==
    /\ LeavesExcept(w)
    /\ tipResp'.res.status = HTTP_200_OK

\* The cache holds a live entry under key at time t.
EntryExists(c, key, t) == c[key].value # None /\ c[key].expires > t

\* The response comes from the pool of default tips.
FromPool(res) ==
    /\ res.status = HTTP_200_OK
    /\ res.tip \in DEFAULT_FALLBACK_TIPS
    /\ res.fallback
    /\ ~res.cached

\* C15 as stated: when generating today's tip has failed and the cache
\* holds no entry under yesterday's key, the request ends with one of
\* DEFAULT_FALLBACK_TIPS, with fallback = true and cached = false.
C15_PoolWhenNoYesterday ==
    [][\A w \in Workers :
          (LeavesExcept(w) /\ ~EntryExists(cache, DateOf(now) - 1, now))
             => FromPool(tipResp'.res)]_vars

\* What holds of C15: whenever the read of yesterday's key returns and finds
\* no entry, the response comes from the pool.
C15_PoolWhenReadAnswers ==
    [][\A w \in Workers :
          (ExceptAnswers(w) /\ ~EntryExists(cache, DateOf(now) - 1, now))
             => FromPool(tipResp'.res)]_vars

\* C16 as stated: when generating today's tip has failed and an entry
\* exists under yesterday's key, the request ends with exactly that entry,
\* fallback = true, cached = true and yesterday's date; the pool is used
\* only when the entry is absent.
C16_AnyYesterdayEntryReturned ==
    [][\A w \in Workers :
          LeavesExcept(w) =>
             LET yesterday == DateOf(now) - 1
             IN  /\ EntryExists(cache, yesterday, now)
                    => tipResp'.res =
                          TipRes(HTTP_200_OK, cache[yesterday].value, TRUE, TRUE,
                                 yesterday)
                 /\ FromPool(tipResp'.res) => ~EntryExists(cache, yesterday, now)]_vars

\* What holds of C16: whenever the read of yesterday's key returns, a
\* non-empty entry is returned as it is, with fallback = true, cached = true
\* and yesterday's date, and in every other case (no entry, or an entry that
\* is the empty string) the response comes from the pool.
C16_YesterdayThenPool ==
    [][\A w \in Workers :
          ExceptAnswers(w) =>
             LET yesterday == DateOf(now) - 1
             IN  IF EntryExists(cache, yesterday, now) /\ cache[yesterday].value # ""
                 THEN tipResp'.res =
                         TipRes(HTTP_200_OK, cache[yesterday].value, TRUE, TRUE, yesterday)
                 ELSE FromPool(tipResp'.res)]_vars

\* C21 (amended), the step in which the model has answered and cache.set
\* has returned: the tip is stored under the date key of the request, for
\* 48 hours, and no other key changes.
C21_StoreStep ==
    \A w \in Workers :
       (tipReqs[w].pc = "generate" /\ tipReqs'[w].pc = "respond") =>
          /\ tipReqs'[w].tip # None
          /\ cache' = [cache EXCEPT ![tipReqs[w].today] =
                         [value |-> tipReqs'[w].tip, expires |-> now + 2 * TicksPerDay]]

\* C21 (amended), the step that answers after the store: the generated tip
\* with cached = false, no fallback, and the date of the request.
C21_RespondStep ==
    \A w \in Workers :
       (tipReqs[w].pc = "respond" /\ tipReqs'[w].pc = "idle") =>
          tipResp'.res = TipRes(HTTP_200_OK, tipReqs[w].tip, FALSE, FALSE,
                                tipReqs[w].today)

\* C21, in every state: an entry stored under the key of day d is readable
\* at every moment of day d and of day d + 1.
C21_Retained ==
    \A d \in CacheKeys :
       (cache[d].value # None /\ DateOf(now) \in {d, d + 1})
          => CacheGet(cache, d, now) = cache[d].value

TodaysEntry == IF cache[DateOf(now)].expires > now THEN cache[DateOf(now)].value
               ELSE None

\* C30, the writes: the cache changes only in the step of a generation
\* whose model call and cache.set succeeded, and only under the key of that
\* request; in particular no step that ends a request (from the cache, or in
\* either fallback) writes.
C30_WriteStep ==
    cache' # cache =>
       \E w \in Workers :
          /\ tipReqs[w].pc = "generate"
          /\ tipReqs'[w].pc = "respond"
          /\ \A d \in CacheKeys : d # tipReqs[w].today => cache'[d] = cache[d]

\* C30, a request served from the cache: it is answered in the step that
\* reads a non-empty entry under today's key, without passing through the
\* call of the external model.
C30_CachedStep ==
    (tipResp' # tipResp /\ tipResp'.res.cached /\ ~tipResp'.res.fallback) =>
       /\ TodaysEntry \notin {None, ""}
       /\ tipResp'.res = TipRes(HTTP_200_OK, TodaysEntry, TRUE, FALSE, DateOf(now))
       /\ tipReqs' = tipReqs
       /\ cache' = cache

\* C30 (amended), a request that is not answered from the cache: it goes on
\* to call the external model, or, when the read of today's key raised, to
\* the except branch; with no entry under today's key no request is
\* answered without one of the two.
C30_StartStep ==
    \A w \in Workers :
       (tipReqs[w].pc = "idle" /\ tipReqs'[w].pc # "idle") =>
          /\ tipReqs'[w].pc \in {"generate", "except"}
          /\ tipReqs'[w].today = DateOf(now)
          /\ TodaysEntry \notin {None, ""} => tipReqs'[w].pc = "except"

OddTogglers(pk) == {u \in Users : <<u, pk>> \in toggled}

\* C6: toggle_post_like flips.  With requests handled one at a time, in
\* every state a user likes a post exactly when that user has toggled it an
\* odd number of times (so two toggles return to unliked), the post's
\* likes_count is the number of users with an odd number of toggles, and the
\* response of a toggle reports that state and that count.
C6_ToggleFlips ==
    /\ \A p \in posts :
          /\ \A u \in Users :
                (\E l \in likes : l.user = u /\ l.post = p.id) <=> (u \in OddTogglers(p.id))
          /\ Cardinality({l \in likes : l.post = p.id})
                = Cardinality(OddTogglers(p.id))
    /\ (feedResp.op = "toggle_post_like" /\ feedResp.status = HTTP_200_OK)
          => /\ feedResp.liked = (feedResp.user \in OddTogglers(feedResp.pk))
             /\ feedResp.likes_count = Cardinality(OddTogglers(feedResp.pk))

\* C6 witness: a user's second toggle has just returned that user to the
\* unliked state while the other user's like still counts.
C6_Witness ==
    /\ feedResp.op = "toggle_post_like"
    /\ feedResp.status = HTTP_200_OK
    /\ ~feedResp.liked
    /\ feedResp.likes_count = 1
    /\ ~\E l \in likes : l.user = feedResp.user /\ l.post = feedResp.pk

\* C7 as stated: an update or a delete of a post by a user who is not its
\* author is answered 403 (the post is still there, with another author).
C7_NonAuthorGets403 ==
    (/\ feedResp.op \in {"update_post", "destroy_post"}
     /\ \E p \in posts : p.id = feedResp.pk /\ p.author # feedResp.user)
       => feedResp.status = HTTP_403_FORBIDDEN

\* C8, the step of delete_comment: a comment_id that names no comment of the
\* post in the URL is answered 404 and a comment of another user 403, in
\* both cases with every comment left in place; a comment that the request
\* removes is the one addressed and was written by the caller.
C8_DeleteStep ==
    LET r         == feedResp'
        addressed == {c \in comments : c.id = r.comment_id /\ c.post = r.pk}
    IN  r.op = "delete_comment" =>
           /\ addressed = {} =>
                 r.status = HTTP_404_NOT_FOUND /\ comments' = comments
           /\ \A c \in addressed :
                 c.user # r.user =>
                    r.status = HTTP_403_FORBIDDEN /\ comments' = comments
           /\ \A c \in comments \ comments' :
                 c \in addressed /\ c.user = r.user /\ r.status = HTTP_204_NO_CONTENT

\* C8: delete_comment removes a comment only for its author (403 otherwise)
\* and only under the post it belongs to (404 otherwise).
C8_OnlyAuthorDeletesComment == [][C8_DeleteStep]_vars

\* C8 witness: a user has just been refused (403) the deletion of a comment
\* that exists under the post of the URL and was written by another user.
C8_Witness ==
    /\ feedResp.op = "delete_comment"
    /\ feedResp.status = HTTP_403_FORBIDDEN
    /\ \E c \in comments :
          /\ c.id = feedResp.comment_id
          /\ c.post = feedResp.pk
          /\ c.user # feedResp.user

\* C11 as stated: toggles of different workers interleave as if each were
\* atomic.  No toggle_post_like request ends with an error, and when no
\* toggle is in flight a user likes a post exactly when that user has sent
\* an odd number of toggles for it (after two concurrent toggles by one
\* user: the original state).
C11_ConcurrentTogglesFlip ==
    /\ feedResp.op = "toggle_post_like"
          => feedResp.status \in {HTTP_200_OK, HTTP_404_NOT_FOUND}
    /\ (\A w \in Workers : toggleReqs[w].pc = "idle")
          => \A p \in posts : \A u \in Users :
                (\E l \in likes : l.user = u /\ l.post = p.id) <=> (<<u, p.id>> \in toggled)

\* The PostLike records of post pk, and its PostComment records.
PostLikeRecords(pk) == {l \in likes : l.post = pk}
PostCommentRecords(pk) == {c \in comments : c.post = pk}

\* C23: in every state, the likes_count that the last toggle_post_like
\* response reported for its post is the number of PostLike records of that
\* post, and the last listing has one row per post, whose likes_count and
\* comments_count are the numbers of the post's PostLike and PostComment
\* records.
C23_CountsAreDerived ==
    /\ (feedResp.op = "toggle_post_like" /\ feedResp.status = HTTP_200_OK)
          => feedResp.likes_count = Cardinality(PostLikeRecords(feedResp.pk))
    /\ feedResp.op = "list_posts"
          => /\ Len(feedResp.data) = Cardinality(posts)
             /\ \A p \in posts : \E i \in 1 .. Len(feedResp.data) :
                    feedResp.data[i].id = p.id
             /\ \A i \in 1 .. Len(feedResp.data) :
                    /\ feedResp.data[i].likes_count
                          = Cardinality(PostLikeRecords(feedResp.data[i].id))
                    /\ feedResp.data[i].comments_count
                          = Cardinality(PostCommentRecords(feedResp.data[i].id))

\* C23 witness: a listing that reports two likes and one comment for a post.
C23_Witness ==
    /\ feedResp.op = "list_posts"
    /\ \E i \in 1 .. Len(feedResp.data) :
          /\ feedResp.data[i].likes_count = 2
          /\ feedResp.data[i].comments_count = 1

\* C24: in every state, whatever the interleaving of the toggle_post_like
\* requests, every (user, post) pair has at most one PostLike row.
C24_AtMostOneLikePerPair ==
    \A u \in Users : \A pk \in ClientPostIds :
       Cardinality({l \in likes : l.user = u /\ l.post = pk}) <= 1

\* C24 witness: two requests of one user both found no like of the post; the
\* first inserted its row and the INSERT of the second was refused.
C24_Witness ==
    /\ feedResp.op = "toggle_post_like"
    /\ feedResp.status = HTTP_500_INTERNAL_SERVER_ERROR
    /\ Cardinality({l \in likes : l.user = feedResp.user /\ l.post = feedResp.pk}) = 1

(***************************************************************************)
(*                   CLAIMS ABOUT THE TUTORIAL CATALOG                     *)
(***************************************************************************)

\* C9 as stated: a tutorial creation request by a farmer is answered 403,
\* it creates no row, and every tutorial was uploaded by an extension worker.
C9_FarmerCreateGets403 ==
    /\ (lmsResp.op = "create_tutorial" /\ user_type[lmsResp.user] = "farmer")
          => lmsResp.status = HTTP_403_FORBIDDEN
    /\ \A t \in tutorials : user_type[t.uploader] = "extension_worker"

\* C10 as stated: increments are not lost.  When no increment_views request
\* is in flight, the view_count of every tutorial is its initial value (0)
\* plus the number of increment_views requests that completed on it.
C10_NoLostIncrement ==
    (\A w \in Workers : incReqs[w].pc = "idle")
       => \A t \in tutorials : t.view_count = 0 + incDone[t.id]

\* C22 as stated: from one state to the next, the view_count of a tutorial
\* never decreases, and it changes only in the step of an increment_views
\* request that is answered 200.
C22_ViewCountMonotonic ==
    [][\A t \in tutorials : \A n \in tutorials' :
          n.id = t.id =>
             /\ n.view_count >= t.view_count
             /\ n.view_count # t.view_count
                   => /\ lmsResp'.op = "increment_views"
                      /\ lmsResp'.status = HTTP_200_OK]_vars

\* validate_video refuses the file: it is larger than 100 MB, or the
\* lower-cased extension of its name is not an allowed one.
Refused(value) ==
    \/ value.size > 100 * 1024 * 1024
    \/ Lower(SplitExt(value.name)) \notin {".mp4", ".mov", ".avi", ".mkv", ".webm"}

\* C19, in every state: no tutorial row has a video that validate_video
\* refuses, and no such file has been written to storage.
C19_NoRefusedVideoStored ==
    /\ \A t \in tutorials : ~Refused(t.video)
    /\ \A v \in storage : ~Refused(v)

\* C19, the step of a request that carries such a video: a creation is
\* answered 400 (an update 400, or 404 when there is no such tutorial), and
\* neither the tutorials nor the storage change.
C19_RefusedStep ==
    LET r == lmsResp'
    IN  (/\ r.op \in {"create_tutorial", "update_tutorial"}
         /\ r.video # NoVideo
         /\ Refused(r.video))
           => /\ r.op = "create_tutorial" => r.status = HTTP_400_BAD_REQUEST
              /\ r.status \in {HTTP_400_BAD_REQUEST, HTTP_404_NOT_FOUND}
              /\ tutorials' = tutorials
              /\ storage' = storage

\* C19: an upload whose video is larger than 100 MB or whose extension is
\* not allowed fails validation with 400 before anything is written to
\* storage or to the tutorials; no tutorial with such a video ever exists.
C19_BadVideoRefused == []C19_NoRefusedVideoStored /\ [][C19_RefusedStep]_vars

\* C19 witness: with a tutorial of exactly 100 MB in place, its uploader's
\* update with a file of one byte more and an allowed extension in upper
\* case was refused.
C19_Witness ==
    /\ lmsResp.op = "update_tutorial"
    /\ lmsResp.status = HTTP_400_BAD_REQUEST
    /\ lmsResp.video = [name |-> "B.MOV", size |-> MaxVideoSize + 1]
    /\ \E t \in tutorials :
          /\ t.id = lmsResp.pk
          /\ t.uploader = lmsResp.user
          /\ t.video.size = MaxVideoSize
    /\ Cardinality(storage) = 1

\* The step is an update or delete request on tutorial t by a user who is not
\* its uploader.
ByAnotherUser(t) ==
    /\ lmsResp'.op \in {"update_tutorial", "destroy_tutorial"}
    /\ lmsResp'.pk = t.id
    /\ lmsResp'.user # t.uploader

\* C27, the step of another user's request: it is answered 403, or 400 when
\* it is an update whose video fails validation, and the tutorials are left
\* as they are.
C27_OtherUserStep ==
    \A t \in tutorials :
       ByAnotherUser(t) =>
          /\ lmsResp'.status \in {HTTP_403_FORBIDDEN, HTTP_400_BAD_REQUEST}
          /\ lmsResp'.status = HTTP_400_BAD_REQUEST
                <=> /\ lmsResp'.op = "update_tutorial"
                    /\ lmsResp'.video # NoVideo
                    /\ Refused(lmsResp'.video)
          /\ tutorials' = tutorials

\* C27, persistence: a tutorial leaves the table only in the step of a
\* delete request of its uploader, and its row changes only in the step of
\* an update request of its uploader.
C27_PersistsStep ==
    \A t \in tutorials :
       t \notin tutorials' =>
          /\ lmsResp'.user = t.uploader
          /\ lmsResp'.pk = t.id
          /\ IF \E n \in tutorials' : n.id = t.id
             THEN lmsResp'.op = "update_tutorial" /\ lmsResp'.status = HTTP_200_OK
             ELSE lmsResp'.op = "destroy_tutorial"
                     /\ lmsResp'.status = HTTP_204_NO_CONTENT

\* C27, amended: only a tutorial's uploader can update or delete it; the
\* request of any other user is refused (403, or 400 for invalid update data)
\* and changes nothing, and a tutorial persists until its uploader deletes it.
C27_OnlyUploaderChanges == [][C27_OtherUserStep /\ C27_PersistsStep]_vars

\* C27 witness: a farmer's update of an extension worker's tutorial was
\* answered 403 and the tutorial is there with the title it was created with.
C27_Witness ==
    /\ lmsResp.op = "update_tutorial"
    /\ lmsResp.status = HTTP_403_FORBIDDEN
    /\ user_type[lmsResp.user] = "farmer"
    /\ \E t \in tutorials :
          t.id = lmsResp.pk /\ t.uploader # lmsResp.user /\ t.title = "t1"

\* C27 as stated: every update or delete request of another user is
\* answered 403 and leaves the tutorials as they are.
C27_OtherUserAlways403 ==
    [][\A t \in tutorials :
          ByAnotherUser(t) =>
             /\ lmsResp'.status = HTTP_403_FORBIDDEN
             /\ tutorials' = tutorials]_vars

\* C25, in every state: no farmer has an ExtensionWorkerProfile and no
\* extension worker has a FarmerProfile.
C25_ProfileMatchesType ==
    /\ \A p \in worker_profiles : user_type[p.user] # "farmer"
    /\ \A p \in farmer_profiles : user_type[p.user] # "extension_worker"

\* C25, in every step: the user_type of a registered user does not change.
C25_TypeFixedStep ==
    \A u \in Users : user_type[u] # None => user_type'[u] = user_type[u]

\* C25: after any sequence of registrations and profile updates, the profile
\* of a user is of the user's type, and user_type never changes once set.
C25_ProfilesFollowUserType ==
    []C25_ProfileMatchesType /\ [][C25_TypeFixedStep]_vars

\* C25 witness: an extension worker, who has no FarmerProfile, has sent a
\* profile update (every update in the model carries a first name; some
\* carry a user_type and farmer_profile data), while a farmer who registered
\* without a profile has got one from an update.
C25_Witness ==
    /\ lmsResp.op = "update_profile"
    /\ user_type[lmsResp.user] = "extension_worker"
    /\ \E p \in farmer_profiles : user_type[p.user] = "farmer"
    /\ \E p \in worker_profiles : p.user = lmsResp.user

\* C26, the step of a creation request by an extension worker: the response
\* and the resulting state are decided by the title and the video alone,
\* whatever the is_approved of the caller's profile; the profiles are left
\* as they are.
C26_CreateStep ==
    LET r        == lmsResp'
        accepted == /\ r.title # ""
                    /\ r.video # NoVideo
                    /\ ~Refused(r.video)
    IN  (r.op = "create_tutorial" /\ lmsResp' # lmsResp
            /\ user_type[r.user] = "extension_worker")
           => /\ r.status = IF accepted THEN HTTP_201_CREATED ELSE HTTP_400_BAD_REQUEST
              /\ tutorials' = IF accepted
                              THEN tutorials \cup
                                      {[id |-> next_tutorial_id, uploader |-> r.user,
                                        title |-> r.title, video |-> r.video,
                                        view_count |-> 0]}
                              ELSE tutorials
              /\ storage' = IF accepted THEN storage \cup {r.video} ELSE storage
              /\ worker_profiles' = worker_profiles

\* C26: the outcome of a tutorial creation request does not depend on the
\* is_approved flag of the calling extension worker.
C26_ApprovalNotConsulted == [][C26_CreateStep]_vars

\* C26 witness: an extension worker whose profile is not approved has
\* created a tutorial.
C26_Witness ==
    /\ lmsResp.op = "create_tutorial"
    /\ lmsResp.status = HTTP_201_CREATED
    /\ \E p \in worker_profiles : p.user = lmsResp.user /\ ~p.is_approved
    /\ \E t \in tutorials : t.uploader = lmsResp.user

(***************************************************************************)
(*                  CLAIMS ABOUT ACCOUNTS AND TOKENS                       *)
(***************************************************************************)

\* The keys of the token rows.
KeysOf(toks) == {t.key : t \in toks}

\* C17, in every state: a user has at most one token, and a key is the key
\* of one row only, whose user is a registered user.
C17_OneToOne ==
    /\ \A u \in Users : Cardinality(TokensOf(tokens, u)) <= 1
    /\ \A t1 \in tokens : \A t2 \in tokens : t1.key = t2.key => t1 = t2
    /\ \A t \in tokens : t.user \in Users /\ password[t.user] # None

\* C17, the step of login_view: a successful login returns the key of the
\* user's token, which is the row the user had before when there was one
\* (nothing is written then) and a new row with a fresh key otherwise; a
\* refused login (400) writes nothing.  Two successful logins of one user in
\* a row return the same token.
C17_LoginStep ==
    LET r == authResp'
    IN  r.op = "login_view" =>
           /\ r.status \in {HTTP_200_OK, HTTP_400_BAD_REQUEST}
           /\ r.status = HTTP_400_BAD_REQUEST => tokens' = tokens
           /\ r.status = HTTP_200_OK =>
                 /\ TokensOf(tokens', r.user) = {[key |-> r.token, user |-> r.user]}
                 /\ IF TokensOf(tokens, r.user) # {}
                    THEN tokens' = tokens
                    ELSE /\ tokens' = tokens \cup {[key |-> r.token, user |-> r.user]}
                         /\ r.token \notin KeysOf(tokens) \cup revoked
                 /\ (/\ authResp.op = "login_view"
                     /\ authResp.status = HTTP_200_OK
                     /\ authResp.user = r.user) => r.token = authResp.token

\* C17: each user has at most one token and each token identifies exactly
\* one user; login_view issues a token when the user has none and returns
\* the existing one otherwise, so that successive logins return the same
\* token, and a failed login creates no token.
C17_TokenPerUser == []C17_OneToOne /\ [][C17_LoginStep]_vars

\* C17 witness: a login that returned the token the user already had, while
\* another user holds a token too.
C17_Witness ==
    /\ authResp.op = "login_view"
    /\ authResp.status = HTTP_200_OK
    /\ ~authResp.created
    /\ [key |-> authResp.token, user |-> authResp.user] \in tokens
    /\ \E t \in tokens : t.user # authResp.user

\* C18, the step of logout_view and of change_password_view: after a
\* successful logout the user has no token; after a successful change of
\* password the user's token is a new one, returned in the response, and
\* the token the request came with is gone.
C18_RevokeStep ==
    LET r == authResp'
    IN  /\ (r.op = "logout_view" /\ r.status = HTTP_200_OK) =>
              /\ Authenticate(tokens, r.presented) = r.user
              /\ TokensOf(tokens', r.user) = {}
              /\ r.presented \in revoked'
        /\ (r.op = "change_password_view" /\ r.status = HTTP_200_OK) =>
              /\ Authenticate(tokens, r.presented) = r.user
              /\ TokensOf(tokens', r.user) = {[key |-> r.token, user |-> r.user]}
              /\ r.token # r.presented
              /\ r.token \notin KeysOf(tokens) \cup revoked
              /\ r.presented \in revoked'

\* C18, in every state: a revoked key authenticates nobody.
C18_RevokedNeverAuthenticates ==
    \A key \in revoked : Authenticate(tokens, key) = None

\* C18: token revocation is effective.  After logout_view succeeds the user
\* has no token, after change_password_view succeeds the user's previous
\* token is deleted and replaced by a new one, and in both cases the token
\* held before the call never authenticates a later request.
C18_RevocationEffective ==
    [][C18_RevokeStep /\ (revoked \subseteq revoked')]_vars
       /\ []C18_RevokedNeverAuthenticates

\* C18 witness: a request that came with a token revoked earlier by a
\* change of password was refused, after the same user had logged out with
\* the token that replaced it.
C18_Witness ==
    /\ Cardinality(revoked) >= 2
    /\ authResp.status = HTTP_401_UNAUTHORIZED
    /\ authResp.presented \in revoked
    /\ tokens = {}

=========================================================================
